---- MODULE Spec2Model ----
(***************************************************************************)
(* Multimaze: the maze algorithm engine.                                   *)
(*                                                                         *)
(* The grid/wall data model (utils/mazeUtils), the eight generation        *)
(* algorithms (algorithms/maze-generation) and their two-phase step        *)
(* recording.  A generator is a pure function of (width, height) and its   *)
(* random draws; here each loop iteration of a generator is one action and *)
(* every Math.random() draw is a nondeterministic choice.                  *)
(***************************************************************************)
EXTENDS Integers, Sequences, FiniteSets, TLC

\* Bounds of the model: grids of 2..MaxWidth columns, 2..MaxHeight rows and
\* at most MaxCells cells; at most MaxCellsOrdered cells for the generators
\* whose state holds the random order in which the cells were reached
\* (Prim, Kruskal, Aldous-Broder).
MaxWidth == 3
MaxHeight == 3
MaxCells == 9
MaxCellsOrdered == 6

VARIABLES
  alg,              \* the generator that runs (key of mazeGenerationAlgorithms)
  width, height,    \* its arguments
  pc,               \* position in the generator's code
  grid,             \* const grid: Cell[][]
  steps,            \* const steps: MazeGenerationStep[]
  visitPath,        \* const visitPath: CellPosition[]
  visited,          \* let visited / cellsVisitedDuringGeneration: CellPosition[]
  start,            \* const start (DFS, Prim)
  stack,            \* const stack: CellPosition[] (DFS); call stack of divideArea
  walls,            \* const walls: Wall[] (Prim); the unread rest of shuffledWalls (Kruskal)
  sets,             \* let sets: number[] (Eller); const sets: Map (Kruskal)
  nextSetId,        \* let nextSetId (Eller)
  setVerticalPaths, \* const setVerticalPaths (Eller)
  row, col,         \* loop counters of the scanning generators
  run,              \* let run: CellPosition[] (Sidewinder)
  current,          \* let current (Aldous-Broder)
  division,         \* the locals of the running divideArea call (Recursive Division)
  idx,              \* position in visitPath / row-major sweep of the coloring phase
  state,            \* const [state, dispatch] = useReducer(mazeReducer, initialState)
  animationTimer,   \* the timeout the animation effect has pending, or Null
  error             \* an exception has escaped the reducer

vars == <<alg, width, height, pc, grid, steps, visitPath, visited, start, stack,
          walls, sets, nextSetId, setVerticalPaths, row, col, run, current, division,
          idx, state, animationTimer, error>>

\* The controller (hooks/useMaze): untouched while a generator runs.
ctl == <<state, animationTimer, error>>

-----------------------------------------------------------------------------
(* types/maze: positions, directions *)

Pos(r, c) == [row |-> r, col |-> c]

Positions(w, h) == {Pos(r, c) : r \in 0..(h - 1), c \in 0..(w - 1)}

Directions == {"north", "east", "south", "west"}

Algorithms == {"DFS", "BINARY_TREE", "SIDEWINDER", "ELLER", "PRIM", "KRUSKAL",
               "RECURSIVE_DIVISION", "ALDOUS_BRODER"}

Range(s) == {s[i] : i \in DOMAIN s}

\* grid.length and grid[0].length
GridHeight(g) == Cardinality({p.row : p \in DOMAIN g})

GridWidth(g) == Cardinality({p.col : p \in DOMAIN g})

-----------------------------------------------------------------------------
(* utils/mazeUtils *)

createCell ==
  [visited |-> FALSE,
   walls |-> [north |-> TRUE, east |-> TRUE, south |-> TRUE, west |-> TRUE],
   coloredWalls |-> [north |-> FALSE, east |-> FALSE, south |-> FALSE, west |-> FALSE]]

createGrid(w, h) == [p \in Positions(w, h) |-> createCell]

areCellsEqual(a, b) == a.row = b.row /\ a.col = b.col

\* Orthogonal neighbours in the fixed order north, east, south, west.
getNeighbors(position, g, unvisitedOnly) ==
  LET r == position.row
      c == position.col
      h == GridHeight(g)
      w == GridWidth(g)
      keep(n) == ~unvisitedOnly \/ ~g[n].visited
      up    == IF r > 0 /\ keep(Pos(r - 1, c)) THEN <<Pos(r - 1, c)>> ELSE <<>>
      right == IF c < w - 1 /\ keep(Pos(r, c + 1)) THEN <<Pos(r, c + 1)>> ELSE <<>>
      down  == IF r < h - 1 /\ keep(Pos(r + 1, c)) THEN <<Pos(r + 1, c)>> ELSE <<>>
      left  == IF c > 0 /\ keep(Pos(r, c - 1)) THEN <<Pos(r, c - 1)>> ELSE <<>>
  IN  up \o right \o down \o left

\* removeWallBetween clearing the flag of the current cell only.
removeWallBetweenOneSide(cur, next, g) ==
  IF cur.row = next.row - 1
    THEN [g EXCEPT ![cur].walls.south = FALSE]
  ELSE IF cur.row = next.row + 1
    THEN [g EXCEPT ![cur].walls.north = FALSE]
  ELSE IF cur.col = next.col - 1
    THEN [g EXCEPT ![cur].walls.east = FALSE]
  ELSE IF cur.col = next.col + 1
    THEN [g EXCEPT ![cur].walls.west = FALSE]
  ELSE g

\* The branch is chosen on the rows first, then on the columns, as in the code.
removeWallBetween(cur, next, g) ==
  IF cur.row = next.row - 1
    THEN [g EXCEPT ![cur].walls.south = FALSE, ![next].walls.north = FALSE]
  ELSE IF cur.row = next.row + 1
    THEN [g EXCEPT ![cur].walls.north = FALSE, ![next].walls.south = FALSE]
  ELSE IF cur.col = next.col - 1
    THEN [g EXCEPT ![cur].walls.east = FALSE, ![next].walls.west = FALSE]
  ELSE IF cur.col = next.col + 1
    THEN [g EXCEPT ![cur].walls.west = FALSE, ![next].walls.east = FALSE]
  ELSE g

Abs(n) == IF n < 0 THEN -n ELSE n

hasWallBetween(a, b, g) ==
  LET rowDiff == Abs(a.row - b.row)
      colDiff == Abs(a.col - b.col)
  IN  IF ~((rowDiff = 1 /\ colDiff = 0) \/ (rowDiff = 0 /\ colDiff = 1))
        THEN TRUE
      ELSE IF a.row < b.row THEN g[a].walls.south \/ g[b].walls.north
      ELSE IF a.row > b.row THEN g[a].walls.north \/ g[b].walls.south
      ELSE IF a.col < b.col THEN g[a].walls.east \/ g[b].walls.west
      ELSE g[a].walls.west \/ g[b].walls.east

cloneGrid(g) ==
  [p \in DOMAIN g |->
     [visited |-> g[p].visited,
      walls |-> [d \in Directions |-> g[p].walls[d]],
      coloredWalls |-> [d \in Directions |-> g[p].coloredWalls[d]]]]

createEmptyMaze(w, h) ==
  [p \in Positions(w, h) |->
     [createCell EXCEPT
        !.walls = [north |-> ~(p.row > 0),
                   east  |-> ~(p.col < w - 1),
                   south |-> ~(p.row < h - 1),
                   west  |-> ~(p.col > 0)]]]

setVisited(position, g) == [g EXCEPT ![position].visited = TRUE]

uncolorAllWalls(g) ==
  [p \in DOMAIN g |->
     [g[p] EXCEPT !.coloredWalls =
        [north |-> FALSE, east |-> FALSE, south |-> FALSE, west |-> FALSE]]]

\* A colorAllWallsOfCell that handles the north and east walls only.
colorAllWallsOfCellNorthEast(position, g) ==
  LET r == position.row
      c == position.col
      w == GridWidth(g)
      cell == g[position]
      g1 == IF cell.walls.north
              THEN LET a == [g EXCEPT ![position].coloredWalls.north = TRUE]
                   IN  IF r > 0
                         THEN [a EXCEPT ![Pos(r - 1, c)].coloredWalls.south = TRUE]
                         ELSE a
              ELSE g
      g2 == IF cell.walls.east
              THEN LET a == [g1 EXCEPT ![position].coloredWalls.east = TRUE]
                   IN  IF c < w - 1
                         THEN [a EXCEPT ![Pos(r, c + 1)].coloredWalls.west = TRUE]
                         ELSE a
              ELSE g1
  IN  g2

\* A colorAllWallsOfCell that writes the walls flag together with the
\* coloredWalls flag, in every direction.
colorAllWallsOfCellRaising(position, g) ==
  [g EXCEPT ![position].coloredWalls =
              [north |-> TRUE, east |-> TRUE, south |-> TRUE, west |-> TRUE],
            ![position].walls =
              [north |-> TRUE, east |-> TRUE, south |-> TRUE, west |-> TRUE]]

\* colorAllWallsOfCell, the grid it leaves: each existing wall of the cell is
\* colored on the cell and on the far side's facing flag, if in bounds.
colorAllWallsOfCellGrid(position, g) ==
  LET r == position.row
      c == position.col
      h == GridHeight(g)
      w == GridWidth(g)
      cell == g[position]
      g1 == IF cell.walls.north
              THEN LET a == [g EXCEPT ![position].coloredWalls.north = TRUE]
                   IN  IF r > 0
                         THEN [a EXCEPT ![Pos(r - 1, c)].coloredWalls.south = TRUE]
                         ELSE a
              ELSE g
      g2 == IF cell.walls.east
              THEN LET a == [g1 EXCEPT ![position].coloredWalls.east = TRUE]
                   IN  IF c < w - 1
                         THEN [a EXCEPT ![Pos(r, c + 1)].coloredWalls.west = TRUE]
                         ELSE a
              ELSE g1
      g3 == IF cell.walls.south
              THEN LET a == [g2 EXCEPT ![position].coloredWalls.south = TRUE]
                   IN  IF r < h - 1
                         THEN [a EXCEPT ![Pos(r + 1, c)].coloredWalls.north = TRUE]
                         ELSE a
              ELSE g2
      g4 == IF cell.walls.west
              THEN LET a == [g3 EXCEPT ![position].coloredWalls.west = TRUE]
                   IN  IF c > 0
                         THEN [a EXCEPT ![Pos(r, c - 1)].coloredWalls.east = TRUE]
                         ELSE a
              ELSE g3
  IN  g4

\* colorAllWallsOfCell, the list it returns.
colorAllWallsOfCellList(position, g) ==
  LET cell == g[position]
      id(d) == IF cell.walls[d] THEN <<[position |-> position, wall |-> d]>> ELSE <<>>
  IN  id("north") \o id("east") \o id("south") \o id("west")

\* setWallBetween(grid, row1, col1, wall)
setWallBetween(g, row1, col1, wall) ==
  LET h == GridHeight(g)
      w == GridWidth(g)
      a == [g EXCEPT ![Pos(row1, col1)].walls[wall] = TRUE]
  IN  IF wall = "north" /\ row1 > 0
        THEN [a EXCEPT ![Pos(row1 - 1, col1)].walls.south = TRUE]
      ELSE IF wall = "east" /\ col1 < w - 1
        THEN [a EXCEPT ![Pos(row1, col1 + 1)].walls.west = TRUE]
      ELSE IF wall = "south" /\ row1 < h - 1
        THEN [a EXCEPT ![Pos(row1 + 1, col1)].walls.north = TRUE]
      ELSE IF wall = "west" /\ col1 > 0
        THEN [a EXCEPT ![Pos(row1, col1 - 1)].walls.east = TRUE]
      ELSE a

-----------------------------------------------------------------------------
(* hooks/useMaze: the state the reducer starts from. *)

\* null (startTime, endTime, animationTimer).
Null == "null"

\* const initialState: MazeState. generationAlgorithm and solvingAlgorithm hold
\* the keys getGenerationAlgorithmKey / getSolvingAlgorithmKey map them to.
initialState ==
  [grid |-> <<>>,
   width |-> 15,
   height |-> 15,
   start |-> Pos(0, 0),
   end |-> Pos(14, 14),
   userPath |-> <<>>,
   generationAlgorithm |-> "DFS",
   solvingAlgorithm |-> "DFS",
   isGenerating |-> FALSE,
   isSolving |-> FALSE,
   generationSteps |-> <<>>,
   solvingSteps |-> <<>>,
   currentGenerationStep |-> -1,
   currentSolvingStep |-> -1,
   generationAnimationEnabled |-> TRUE,
   solvingAnimationEnabled |-> TRUE,
   animationSpeed |-> 10,
   animationPlaying |-> FALSE,
   startTime |-> Null,
   endTime |-> Null,
   solved |-> FALSE]

-----------------------------------------------------------------------------
(* The state in which a generator is entered: its arguments are drawn, its *)
(* locals are not yet assigned.  When a generator is run on its own the    *)
(* controller is the unmounted initialState.                               *)

\* divideArea's locals while no call is running its loop.
NoDivision ==
  [startX |-> 0, startY |-> 0, width |-> 0, height |-> 0,
   horizontal |-> FALSE, line |-> 0, passage |-> 0, k |-> 0]

Sizes(a) ==
  {s \in (2..MaxWidth) \X (2..MaxHeight) :
     s[1] * s[2] <= IF a \in {"PRIM", "KRUSKAL", "ALDOUS_BRODER"}
                      THEN MaxCellsOrdered
                      ELSE MaxCells}

InitOn(a, sizes) ==
  /\ alg = a
  /\ \E s \in sizes : width = s[1] /\ height = s[2]
  /\ pc = "begin"
  /\ grid = IF a = "RECURSIVE_DIVISION"
              THEN createEmptyMaze(width, height)
              ELSE createGrid(width, height)
  /\ steps = <<>>
  /\ visitPath = <<>>
  /\ visited = <<>>
  /\ start = Pos(0, 0)
  /\ stack = <<>>
  /\ walls = <<>>
  /\ sets = <<>>
  /\ nextSetId = 1
  /\ setVerticalPaths = {}
  /\ row = 0
  /\ col = 0
  /\ run = <<>>
  /\ current = Pos(0, 0)
  /\ division = NoDivision
  /\ idx = 1
  /\ state = initialState
  /\ animationTimer = Null
  /\ error = FALSE

InitFor(a) == InitOn(a, Sizes(a))

Init == \E a \in Algorithms : InitFor(a)

params == <<alg, width, height>>

ellerVars == <<sets, nextSetId, setVerticalPaths>>

scanVars == <<sets, nextSetId, setVerticalPaths, row, col, run, division>>

-----------------------------------------------------------------------------
(* The recorded second phase, written out identically in binaryTree.ts,    *)
(* sidewinder.ts, eller.ts, prim.ts, kruskal.ts, recursiveDivision.ts and  *)
(* aldousBroder.ts.                                                        *)

\* uncolorAllWalls(grid); steps.push({cells: cloneGrid(grid), visitedCells: []});
\* visited = []. The visited flags of the grid are left as the first phase set them.
RecordInitialState ==
  /\ grid' = uncolorAllWalls(grid)
  /\ steps' = Append(steps, [cells |-> cloneGrid(uncolorAllWalls(grid)),
                             visitedCells |-> <<>>])
  /\ visited' = <<>>
  /\ idx' = 1
  /\ pc' = "coloring"

\* One coloring step at `position`: setVisited, visited.push, colorAllWallsOfCell,
\* steps.push.
ColorPosition(position) ==
  LET g1 == setVisited(position, grid)
      visited1 == Append(visited, position)
      coloredWalls == colorAllWallsOfCellList(position, g1)
      g2 == colorAllWallsOfCellGrid(position, g1)
  IN  /\ grid' = g2
      /\ visited' = visited1
      /\ steps' = Append(steps, [cells |-> cloneGrid(g2), currentCell |-> position,
                                 visitedCells |-> visited1,
                                 coloredWalls |-> coloredWalls])

\* for (const position of visitPath) { ... }: one iteration.
ColorVisitPath(a) ==
  /\ alg = a /\ pc = "coloring" /\ idx <= Len(visitPath)
  /\ ColorPosition(visitPath[idx])
  /\ idx' = idx + 1
  /\ UNCHANGED <<ctl, params, pc, visitPath, start, stack, walls, current>>
  /\ UNCHANGED scanVars

\* return steps, for the generators whose log ends with the visitPath loop.
ReturnSteps(a) ==
  /\ alg = a /\ pc = "coloring" /\ idx > Len(visitPath)
  /\ pc' = "done"
  /\ UNCHANGED <<ctl, params, grid, steps, visitPath, visited, start, stack, walls,
                 current, idx>>
  /\ UNCHANGED scanVars

InPath(path, r, c) == \E i \in DOMAIN path : path[i].row = r /\ path[i].col = c

\* The row-major sweep that follows the visitPath loop in kruskal.ts and
\* recursiveDivision.ts: one iteration of the inner loop.
SweepBegin(a) ==
  /\ alg = a /\ pc = "coloring" /\ idx > Len(visitPath)
  /\ pc' = "sweep" /\ row' = 0 /\ col' = 0
  /\ UNCHANGED <<ctl, params, grid, steps, visitPath, visited, start, stack, walls,
                 current, idx, run, division>>
  /\ UNCHANGED ellerVars

SweepCell(a) ==
  /\ alg = a /\ pc = "sweep" /\ row < height
  /\ IF InPath(visitPath, row, col)
       THEN UNCHANGED <<grid, visited, steps>>
       ELSE ColorPosition(Pos(row, col))
  /\ IF col + 1 < width
       THEN row' = row /\ col' = col + 1
       ELSE row' = row + 1 /\ col' = 0
  /\ UNCHANGED <<ctl, params, pc, visitPath, start, stack, walls, current, idx, run, division>>
  /\ UNCHANGED ellerVars

SweepReturn(a) ==
  /\ alg = a /\ pc = "sweep" /\ row >= height
  /\ pc' = "done"
  /\ UNCHANGED <<ctl, params, grid, steps, visitPath, visited, start, stack, walls,
                 current, idx>>
  /\ UNCHANGED scanVars

-----------------------------------------------------------------------------
(* algorithms/maze-generation/dfs.ts *)

\* lines 24-39: random start, marked visited and pushed.
DFSBegin ==
  /\ alg = "DFS" /\ pc = "begin"
  /\ \E s \in Positions(width, height) :
       /\ start' = s
       /\ grid' = [grid EXCEPT ![s].visited = TRUE]
       /\ stack' = <<s>>
  /\ pc' = "topology"
  /\ UNCHANGED <<ctl, params, steps, visitPath, visited, walls, current, idx>>
  /\ UNCHANGED scanVars

\* DFSCarve with the dead end ending the loop instead of backtracking.
DFSCarveNoBacktrack ==
  /\ alg = "DFS" /\ pc = "topology" /\ Len(stack) > 0
  /\ LET cur == stack[Len(stack)]
         neighbors == getNeighbors(cur, grid, TRUE)
     IN  IF Len(neighbors) > 0
           THEN \E randomNeighbor \in Range(neighbors) :
                  /\ grid' = removeWallBetween(cur, randomNeighbor,
                                [grid EXCEPT ![randomNeighbor].visited = TRUE])
                  /\ stack' = Append(stack, randomNeighbor)
           ELSE /\ stack' = <<>>
                /\ grid' = grid
  /\ UNCHANGED <<ctl, params, pc, steps, visitPath, visited, start, walls,
                 current, idx>>
  /\ UNCHANGED scanVars

\* lines 43-66: one iteration of the carving loop. shuffleArray(neighbors)[0]
\* can be any of the neighbours.
DFSCarve ==
  /\ alg = "DFS" /\ pc = "topology" /\ Len(stack) > 0
  /\ LET cur == stack[Len(stack)]
         neighbors == getNeighbors(cur, grid, TRUE)
     IN  IF Len(neighbors) > 0
           THEN \E randomNeighbor \in Range(neighbors) :
                  /\ grid' = removeWallBetween(cur, randomNeighbor,
                                [grid EXCEPT ![randomNeighbor].visited = TRUE])
                  /\ stack' = Append(stack, randomNeighbor)
           ELSE /\ stack' = SubSeq(stack, 1, Len(stack) - 1)
                /\ grid' = grid
  /\ UNCHANGED <<ctl, params, pc, steps, visitPath, visited, start, walls,
                 current, idx>>
  /\ UNCHANGED scanVars

\* lines 68-102: the carving loop has ended; reset colors and visited flags,
\* record step 0, restart the stack at start and color the start cell.
DFSRecord ==
  /\ alg = "DFS" /\ pc = "topology" /\ Len(stack) = 0
  /\ LET g0 == [p \in DOMAIN grid |-> [uncolorAllWalls(grid)[p] EXCEPT !.visited = FALSE]]
         step0 == [cells |-> cloneGrid(g0), currentCell |-> start,
                   visitedCells |-> <<start>>, coloredWalls |-> <<>>]
         g1 == setVisited(start, g0)
         initialColoredWalls == colorAllWallsOfCellList(start, g1)
         g2 == colorAllWallsOfCellGrid(start, g1)
         step1 == [cells |-> cloneGrid(g2), currentCell |-> start,
                   visitedCells |-> <<start>>, coloredWalls |-> initialColoredWalls]
     IN  /\ steps' = IF Len(initialColoredWalls) > 0
                       THEN <<step0, step1>>
                       ELSE <<step0>>
         /\ grid' = g2
         /\ stack' = <<start>>
  /\ pc' = "coloring"
  /\ UNCHANGED <<ctl, params, visitPath, visited, start, walls, current, idx>>
  /\ UNCHANGED scanVars

\* lines 105-158: one iteration of the coloring walk.
DFSColor ==
  /\ alg = "DFS" /\ pc = "coloring" /\ Len(stack) > 0
  /\ LET cur == stack[Len(stack)]
         neighbors == getNeighbors(cur, grid, TRUE)
     IN  IF Len(neighbors) > 0
           THEN \E randomNeighbor \in Range(neighbors) :
                  LET g1 == setVisited(randomNeighbor, grid)
                      stack1 == Append(stack, randomNeighbor)
                      allColoredWalls == colorAllWallsOfCellList(randomNeighbor, g1)
                      g2 == colorAllWallsOfCellGrid(randomNeighbor, g1)
                  IN  /\ grid' = g2
                      /\ stack' = stack1
                      /\ steps' = Append(steps,
                                    [cells |-> cloneGrid(g2),
                                     currentCell |-> randomNeighbor,
                                     visitedCells |-> stack1,
                                     coloredWalls |-> allColoredWalls])
           ELSE LET stack1 == SubSeq(stack, 1, Len(stack) - 1)
                IN  /\ stack' = stack1
                    /\ grid' = grid
                    /\ steps' = IF Len(stack1) > 0
                                  THEN Append(steps,
                                         [cells |-> cloneGrid(grid),
                                          currentCell |-> stack1[Len(stack1)],
                                          visitedCells |-> stack1,
                                          coloredWalls |-> <<>>])
                                  ELSE steps
  /\ UNCHANGED <<ctl, params, pc, visitPath, visited, start, walls, current, idx>>
  /\ UNCHANGED scanVars

\* line 160: return steps.
DFSReturn ==
  /\ alg = "DFS" /\ pc = "coloring" /\ Len(stack) = 0
  /\ pc' = "done"
  /\ UNCHANGED <<ctl, params, grid, steps, visitPath, visited, start, stack,
                 walls, current, idx>>
  /\ UNCHANGED scanVars

NextDFS == DFSBegin \/ DFSCarve \/ DFSRecord \/ DFSColor \/ DFSReturn

SpecDFS == InitFor("DFS") /\ [][NextDFS]_vars

-----------------------------------------------------------------------------
(* algorithms/maze-generation/binaryTree.ts *)

\* lines 22-32: locals; the scan starts at row 0, col 0.
BTBegin ==
  /\ alg = "BINARY_TREE" /\ pc = "begin"
  /\ pc' = "topology" /\ row' = 0 /\ col' = 0
  /\ UNCHANGED <<ctl, params, grid, steps, visitPath, visited, start, stack, walls,
                 current, idx, run, division>>
  /\ UNCHANGED ellerVars

\* BTScan with the last column handled like an inner cell's coin flip lost:
\* the last column opens nothing.
BTScanLastColumnClosed ==
  /\ alg = "BINARY_TREE" /\ pc = "topology" /\ row < height
  /\ LET cur == Pos(row, col)
     IN  /\ visitPath' = Append(visitPath, cur)
         /\ IF row = height - 1 /\ col = width - 1
              THEN grid' = grid
            ELSE IF col = width - 1
              THEN grid' = grid
            ELSE IF row = height - 1
              THEN grid' = removeWallBetween(cur, Pos(row, col + 1), grid)
            ELSE \E removeBottom \in BOOLEAN :
                   grid' = IF removeBottom
                             THEN removeWallBetween(cur, Pos(row + 1, col), grid)
                             ELSE removeWallBetween(cur, Pos(row, col + 1), grid)
  /\ IF col + 1 < width
       THEN row' = row /\ col' = col + 1
       ELSE row' = row + 1 /\ col' = 0
  /\ UNCHANGED <<ctl, params, pc, steps, visited, start, stack, walls, current, idx, run,
                 division>>
  /\ UNCHANGED ellerVars

\* lines 33-69: the body of the inner loop for one cell.
BTScan ==
  /\ alg = "BINARY_TREE" /\ pc = "topology" /\ row < height
  /\ LET cur == Pos(row, col)
     IN  /\ visitPath' = Append(visitPath, cur)
         /\ IF row = height - 1 /\ col = width - 1
              THEN grid' = grid
            ELSE IF col = width - 1
              THEN grid' = IF row < height - 1
                             THEN removeWallBetween(cur, Pos(row + 1, col), grid)
                             ELSE grid
            ELSE IF row = height - 1
              THEN grid' = removeWallBetween(cur, Pos(row, col + 1), grid)
            ELSE \E removeBottom \in BOOLEAN :
                   grid' = IF removeBottom
                             THEN removeWallBetween(cur, Pos(row + 1, col), grid)
                             ELSE removeWallBetween(cur, Pos(row, col + 1), grid)
  /\ IF col + 1 < width
       THEN row' = row /\ col' = col + 1
       ELSE row' = row + 1 /\ col' = 0
  /\ UNCHANGED <<ctl, params, pc, steps, visited, start, stack, walls, current, idx, run, division>>
  /\ UNCHANGED ellerVars

\* lines 72-82
BTRecord ==
  /\ alg = "BINARY_TREE" /\ pc = "topology" /\ row >= height
  /\ RecordInitialState
  /\ UNCHANGED <<ctl, params, visitPath, start, stack, walls, current>>
  /\ UNCHANGED scanVars

\* lines 85-100
BTColor == ColorVisitPath("BINARY_TREE")

\* line 102
BTReturn == ReturnSteps("BINARY_TREE")

NextBinaryTree == BTBegin \/ BTScan \/ BTRecord \/ BTColor \/ BTReturn

SpecBinaryTree == InitFor("BINARY_TREE") /\ [][NextBinaryTree]_vars

-----------------------------------------------------------------------------
(* algorithms/maze-generation/sidewinder.ts *)

\* lines 26-36
SWBegin ==
  /\ alg = "SIDEWINDER" /\ pc = "begin"
  /\ pc' = "topology" /\ row' = 0 /\ col' = 0
  /\ UNCHANGED <<ctl, params, grid, steps, visitPath, visited, start, stack, walls,
                 current, idx, run, division>>
  /\ UNCHANGED ellerVars

\* lines 36-45: one iteration of the first-row loop.
SWFirstRow ==
  /\ alg = "SIDEWINDER" /\ pc = "topology" /\ row = 0 /\ col < width - 1
  /\ visitPath' = Append(visitPath, Pos(0, col))
  /\ grid' = removeWallBetween(Pos(0, col), Pos(0, col + 1), grid)
  /\ col' = col + 1
  /\ UNCHANGED <<ctl, params, pc, steps, visited, start, stack, walls, current, idx,
                 row, run, division>>
  /\ UNCHANGED ellerVars

\* lines 48-54: the last cell of row 0 is recorded; the row loop starts at row 1.
SWFirstRowEnd ==
  /\ alg = "SIDEWINDER" /\ pc = "topology" /\ row = 0 /\ col >= width - 1
  /\ visitPath' = Append(visitPath, Pos(0, width - 1))
  /\ row' = 1 /\ col' = 0 /\ run' = <<>>
  /\ UNCHANGED <<ctl, params, pc, grid, steps, visited, start, stack, walls, current, idx,
                 division>>
  /\ UNCHANGED ellerVars

\* SWCell opening the wall below the chosen run member (row + 1 for row - 1).
SWCellOpensSouth ==
  /\ alg = "SIDEWINDER" /\ pc = "topology" /\ row >= 1 /\ row < height
  /\ LET cur == Pos(row, col)
         run1 == Append(run, cur)
         endOfRow == col + 1 >= width
     IN  /\ visitPath' = Append(visitPath, cur)
         /\ \E coin \in BOOLEAN :
              LET shouldCloseOut == (col = width - 1) \/ coin
              IN  IF shouldCloseOut /\ Len(run1) > 0
                    THEN \E randomCell \in Range(run1) :
                           /\ grid' = removeWallBetween(randomCell,
                                         Pos(randomCell.row + 1, randomCell.col), grid)
                           /\ run' = <<>>
                  ELSE IF col < width - 1
                    THEN /\ grid' = removeWallBetween(cur, Pos(row, col + 1), grid)
                         /\ run' = IF endOfRow THEN <<>> ELSE run1
                  ELSE /\ grid' = grid
                       /\ run' = IF endOfRow THEN <<>> ELSE run1
         /\ IF endOfRow
              THEN row' = row + 1 /\ col' = 0
              ELSE row' = row /\ col' = col + 1
  /\ UNCHANGED <<ctl, params, pc, steps, visited, start, stack, walls, current, idx,
                 division>>
  /\ UNCHANGED ellerVars

\* SWCell without "(col === width - 1) ||": the last cell of a row closes its
\* run only on the coin.
SWCellCoinOnly ==
  /\ alg = "SIDEWINDER" /\ pc = "topology" /\ row >= 1 /\ row < height
  /\ LET cur == Pos(row, col)
         run1 == Append(run, cur)
         endOfRow == col + 1 >= width
     IN  /\ visitPath' = Append(visitPath, cur)
         /\ \E coin \in BOOLEAN :
              LET shouldCloseOut == coin
              IN  IF shouldCloseOut /\ Len(run1) > 0
                    THEN \E randomCell \in Range(run1) :
                           /\ grid' = removeWallBetween(randomCell,
                                         Pos(randomCell.row - 1, randomCell.col), grid)
                           /\ run' = <<>>
                  ELSE IF col < width - 1
                    THEN /\ grid' = removeWallBetween(cur, Pos(row, col + 1), grid)
                         /\ run' = IF endOfRow THEN <<>> ELSE run1
                  ELSE /\ grid' = grid
                       /\ run' = IF endOfRow THEN <<>> ELSE run1
         /\ IF endOfRow
              THEN row' = row + 1 /\ col' = 0
              ELSE row' = row /\ col' = col + 1
  /\ UNCHANGED <<ctl, params, pc, steps, visited, start, stack, walls, current, idx,
                 division>>
  /\ UNCHANGED ellerVars

\* lines 56-83: the body of the inner loop for one cell of a later row.
\* randomChoice(run) can be any member of the run.
SWCell ==
  /\ alg = "SIDEWINDER" /\ pc = "topology" /\ row >= 1 /\ row < height
  /\ LET cur == Pos(row, col)
         run1 == Append(run, cur)
         endOfRow == col + 1 >= width
     IN  /\ visitPath' = Append(visitPath, cur)
         /\ \E coin \in BOOLEAN :
              LET shouldCloseOut == (col = width - 1) \/ coin
              IN  IF shouldCloseOut /\ Len(run1) > 0
                    THEN \E randomCell \in Range(run1) :
                           /\ grid' = removeWallBetween(randomCell,
                                         Pos(randomCell.row - 1, randomCell.col), grid)
                           /\ run' = <<>>
                  ELSE IF col < width - 1
                    THEN /\ grid' = removeWallBetween(cur, Pos(row, col + 1), grid)
                         /\ run' = IF endOfRow THEN <<>> ELSE run1
                  ELSE /\ grid' = grid
                       /\ run' = IF endOfRow THEN <<>> ELSE run1
         /\ IF endOfRow
              THEN row' = row + 1 /\ col' = 0
              ELSE row' = row /\ col' = col + 1
  /\ UNCHANGED <<ctl, params, pc, steps, visited, start, stack, walls, current, idx,
                 division>>
  /\ UNCHANGED ellerVars

\* lines 86-96
SWRecord ==
  /\ alg = "SIDEWINDER" /\ pc = "topology" /\ row >= 1 /\ row >= height
  /\ RecordInitialState
  /\ UNCHANGED <<ctl, params, visitPath, start, stack, walls, current>>
  /\ UNCHANGED scanVars

\* lines 99-114
SWColor == ColorVisitPath("SIDEWINDER")

\* line 116
SWReturn == ReturnSteps("SIDEWINDER")

NextSideWinder ==
  SWBegin \/ SWFirstRow \/ SWFirstRowEnd \/ SWCell \/ SWRecord \/ SWColor \/ SWReturn

SpecSideWinder == InitFor("SIDEWINDER") /\ [][NextSideWinder]_vars

-----------------------------------------------------------------------------
(* algorithms/maze-generation/eller.ts *)

\* All cells of the row carrying oldSet are relabelled newSet.
MergeSets(ss, oldSet, newSet) ==
  [i \in DOMAIN ss |-> IF ss[i] = oldSet THEN newSet ELSE ss[i]]

\* lines 23-37: sets = [1, ..., width]; sets[col] of the code is sets[col + 1] here.
EllerBegin ==
  /\ alg = "ELLER" /\ pc = "begin"
  /\ sets' = [i \in 1..width |-> i]
  /\ nextSetId' = width + 1
  /\ row' = 0 /\ col' = 0
  /\ pc' = "mark"
  /\ UNCHANGED <<ctl, params, grid, steps, visitPath, visited, start, stack, walls,
                 current, idx, run, division, setVerticalPaths>>

\* lines 39-46: every cell of the row is marked visited and recorded.
EllerMarkRow ==
  /\ alg = "ELLER" /\ pc = "mark" /\ row < height
  /\ grid' = [p \in DOMAIN grid |->
                IF p.row = row THEN [grid[p] EXCEPT !.visited = TRUE] ELSE grid[p]]
  /\ visitPath' = visitPath \o [c \in 1..width |-> Pos(row, c - 1)]
  /\ col' = 0
  /\ pc' = IF row < height - 1 THEN "horizontal" ELSE "lastRow"
  /\ UNCHANGED <<ctl, params, steps, visited, start, stack, walls, current, idx, run,
                 division, row>>
  /\ UNCHANGED ellerVars

\* lines 51-70: one iteration of the horizontal loop; Math.random() < 0.3 is `coin`.
EllerHorizontal ==
  /\ alg = "ELLER" /\ pc = "horizontal"
  /\ IF col < width - 1
       THEN /\ \E coin \in BOOLEAN :
                 LET shouldMerge == coin /\ sets[col + 1] # sets[col + 2]
                 IN  IF shouldMerge
                       THEN /\ grid' = removeWallBetween(Pos(row, col),
                                                         Pos(row, col + 1), grid)
                            /\ sets' = MergeSets(sets, sets[col + 2], sets[col + 1])
                       ELSE UNCHANGED <<grid, sets>>
            /\ col' = col + 1
            /\ UNCHANGED <<pc, setVerticalPaths>>
       ELSE \* line 73: the loop has ended
            /\ setVerticalPaths' = {}
            /\ col' = 0
            /\ pc' = "vertical"
            /\ UNCHANGED <<grid, sets>>
  /\ UNCHANGED <<ctl, params, steps, visitPath, visited, start, stack, walls, current,
                 idx, run, division, row, nextSetId>>

\* EllerVertical without the "|| !setVerticalPaths[setId]" that forces a link.
EllerVerticalUnforced ==
  /\ alg = "ELLER" /\ pc = "vertical" /\ col < width
  /\ LET setId == sets[col + 1]
     IN  \E coin \in BOOLEAN :
           LET shouldConnect == coin
           IN  IF shouldConnect
                 THEN /\ setVerticalPaths' = setVerticalPaths \cup {setId}
                      /\ grid' = removeWallBetween(Pos(row, col), Pos(row + 1, col), grid)
                 ELSE UNCHANGED <<grid, setVerticalPaths>>
  /\ col' = col + 1
  /\ UNCHANGED <<ctl, params, pc, steps, visitPath, visited, start, stack, walls, current,
                 idx, run, division, row, sets, nextSetId>>

\* lines 75-89: one iteration of the vertical loop; Math.random() < 0.4 is `coin`.
EllerVertical ==
  /\ alg = "ELLER" /\ pc = "vertical" /\ col < width
  /\ LET setId == sets[col + 1]
     IN  \E coin \in BOOLEAN :
           LET shouldConnect == coin \/ ~(setId \in setVerticalPaths)
           IN  IF shouldConnect
                 THEN /\ setVerticalPaths' = setVerticalPaths \cup {setId}
                      /\ grid' = removeWallBetween(Pos(row, col), Pos(row + 1, col), grid)
                 ELSE UNCHANGED <<grid, setVerticalPaths>>
  /\ col' = col + 1
  /\ UNCHANGED <<ctl, params, pc, steps, visitPath, visited, start, stack, walls, current,
                 idx, run, division, row, sets, nextSetId>>

\* The ids nextRow receives: a column with a vertical path keeps its set, every
\* other column takes nextSetId++ in column order.
NextRowSets(ss, g, r, nextId) ==
  LET closed(c) == g[Pos(r, c - 1)].walls.south
      fresh(c) == Cardinality({d \in 1..(c - 1) : closed(d)})
  IN  [c \in DOMAIN ss |-> IF ~closed(c) THEN ss[c] ELSE nextId + fresh(c)]

\* lines 92-108: the sets of the next row; the row loop advances.
EllerNextRow ==
  /\ alg = "ELLER" /\ pc = "vertical" /\ col >= width
  /\ sets' = NextRowSets(sets, grid, row, nextSetId)
  /\ nextSetId' = nextSetId
                   + Cardinality({c \in 1..width : grid[Pos(row, c - 1)].walls.south})
  /\ row' = row + 1 /\ col' = 0
  /\ pc' = "mark"
  /\ UNCHANGED <<ctl, params, grid, steps, visitPath, visited, start, stack, walls,
                 current, idx, run, division, setVerticalPaths>>

\* lines 111-127: one iteration of the last row's loop.
EllerLastRow ==
  /\ alg = "ELLER" /\ pc = "lastRow"
  /\ IF col < width - 1
       THEN /\ IF sets[col + 1] # sets[col + 2]
                 THEN /\ grid' = removeWallBetween(Pos(row, col), Pos(row, col + 1), grid)
                      /\ sets' = MergeSets(sets, sets[col + 2], sets[col + 1])
                 ELSE UNCHANGED <<grid, sets>>
            /\ col' = col + 1
            /\ UNCHANGED <<row, pc>>
       ELSE \* the row loop advances past the last row
            /\ row' = row + 1 /\ col' = 0
            /\ pc' = "mark"
            /\ UNCHANGED <<grid, sets>>
  /\ UNCHANGED <<ctl, params, steps, visitPath, visited, start, stack, walls, current,
                 idx, run, division, nextSetId, setVerticalPaths>>

\* lines 131-141
EllerRecord ==
  /\ alg = "ELLER" /\ pc = "mark" /\ row >= height
  /\ RecordInitialState
  /\ UNCHANGED <<ctl, params, visitPath, start, stack, walls, current>>
  /\ UNCHANGED scanVars

\* lines 144-159
EllerColor == ColorVisitPath("ELLER")

\* line 161
EllerReturn == ReturnSteps("ELLER")

NextEller ==
  \/ EllerBegin \/ EllerMarkRow \/ EllerHorizontal \/ EllerVertical \/ EllerNextRow
  \/ EllerLastRow \/ EllerRecord \/ EllerColor \/ EllerReturn

SpecEller == InitFor("ELLER") /\ [][NextEller]_vars

-----------------------------------------------------------------------------
(* algorithms/maze-generation/prim.ts *)

\* lines 134-136
isVisited(cell, vs) == \E i \in DOMAIN vs : vs[i].row = cell.row /\ vs[i].col = cell.col

RECURSIVE SelectSeq2(_, _)
\* The elements of s outside the list vs, in order (the filter of addWalls).
SelectSeq2(s, vs) ==
  IF s = <<>> THEN <<>>
  ELSE IF isVisited(Head(s), vs) THEN SelectSeq2(Tail(s), vs)
  ELSE <<Head(s)>> \o SelectSeq2(Tail(s), vs)

\* lines 113-131: the candidate list after addWalls(cell, walls, grid, ..., visited).
addWalls(cell, ws, g, vs) ==
  LET neighbors == SelectSeq2(getNeighbors(cell, g, FALSE), vs)
  IN  ws \o [i \in DOMAIN neighbors |-> [from |-> cell, to |-> neighbors[i]]]

\* lines 25-51
PrimBegin ==
  /\ alg = "PRIM" /\ pc = "begin"
  /\ \E s \in Positions(width, height) :
       /\ start' = s
       /\ grid' = setVisited(s, grid)
       /\ visited' = <<s>>
       /\ walls' = addWalls(s, <<>>, setVisited(s, grid), <<s>>)
       /\ visitPath' = <<s>>
  /\ pc' = "topology"
  /\ UNCHANGED <<ctl, params, steps, stack, current, idx>>
  /\ UNCHANGED scanVars

\* PrimStep without the test that the far cell is unvisited.
PrimStepUnchecked ==
  /\ alg = "PRIM" /\ pc = "topology" /\ Len(walls) > 0
  /\ \E randomIndex \in 1..Len(walls) :
       LET wall == walls[randomIndex]
           walls1 == SubSeq(walls, 1, randomIndex - 1)
                       \o SubSeq(walls, randomIndex + 1, Len(walls))
           g1 == setVisited(wall.to, removeWallBetween(wall.from, wall.to, grid))
           visited1 == Append(visited, wall.to)
       IN  /\ grid' = g1
           /\ visited' = visited1
           /\ visitPath' = Append(visitPath, wall.to)
           /\ walls' = addWalls(wall.to, walls1, g1, visited1)
  /\ UNCHANGED <<ctl, params, pc, steps, start, stack, current, idx>>
  /\ UNCHANGED scanVars

\* lines 54-77: one iteration of the main loop.
PrimStep ==
  /\ alg = "PRIM" /\ pc = "topology" /\ Len(walls) > 0
  /\ \E randomIndex \in 1..Len(walls) :
       LET wall == walls[randomIndex]
           walls1 == SubSeq(walls, 1, randomIndex - 1)
                       \o SubSeq(walls, randomIndex + 1, Len(walls))
       IN  IF ~isVisited(wall.to, visited)
             THEN LET g1 == setVisited(wall.to, removeWallBetween(wall.from, wall.to, grid))
                      visited1 == Append(visited, wall.to)
                  IN  /\ grid' = g1
                      /\ visited' = visited1
                      /\ visitPath' = Append(visitPath, wall.to)
                      /\ walls' = addWalls(wall.to, walls1, g1, visited1)
             ELSE /\ walls' = walls1
                  /\ UNCHANGED <<grid, visited, visitPath>>
  /\ UNCHANGED <<ctl, params, pc, steps, start, stack, current, idx>>
  /\ UNCHANGED scanVars

\* lines 79-89
PrimRecord ==
  /\ alg = "PRIM" /\ pc = "topology" /\ Len(walls) = 0
  /\ RecordInitialState
  /\ UNCHANGED <<ctl, params, visitPath, start, stack, walls, current>>
  /\ UNCHANGED scanVars

\* lines 92-107
PrimColor == ColorVisitPath("PRIM")

\* line 109
PrimReturn == ReturnSteps("PRIM")

NextPrim == PrimBegin \/ PrimStep \/ PrimRecord \/ PrimColor \/ PrimReturn

SpecPrim == InitFor("PRIM") /\ [][NextPrim]_vars

-----------------------------------------------------------------------------
(* algorithms/maze-generation/kruskal.ts *)

\* lines 45-65: every wall between two cells, east walls first, then south walls.
AllWalls(w, h) ==
  {[from |-> Pos(r, c), to |-> Pos(r, c + 1)] : r \in 0..(h - 1), c \in 0..(w - 2)}
    \cup
  {[from |-> Pos(r, c), to |-> Pos(r + 1, c)] : r \in 0..(h - 2), c \in 0..(w - 1)}

\* lines 25-68. sets maps every cell to the set it belongs to (the code's keys
\* "row,col" are the positions here); the Set objects of the code partition the
\* cells, so two of them are the same object exactly when they have the same
\* members. shuffleArray can return any order of the walls: `walls` holds the
\* walls the loop has not reached yet, and the next one is any of them.
KruskalBegin ==
  /\ alg = "KRUSKAL" /\ pc = "begin"
  /\ sets' = [p \in Positions(width, height) |-> {p}]
  /\ walls' = AllWalls(width, height)
  /\ pc' = "topology"
  /\ UNCHANGED <<ctl, params, grid, steps, visitPath, visited, start, stack, current, idx,
                 nextSetId, setVerticalPaths, row, col, run, division>>

PushIfAbsent(path, p) == IF InPath(path, p.row, p.col) THEN path ELSE Append(path, p)

\* KruskalStep with the test of the two sets inverted (=== for !==).
KruskalStepSameSet ==
  /\ alg = "KRUSKAL" /\ pc = "topology" /\ walls # {}
  /\ \E wall \in walls :
       LET setA == sets[wall.from]
           setB == sets[wall.to]
           mergedSet == setA \cup setB
       IN  /\ walls' = walls \ {wall}
           /\ IF setA = setB
                THEN /\ grid' = removeWallBetween(wall.from, wall.to, grid)
                     /\ sets' = [k \in DOMAIN sets |->
                                   IF k \in mergedSet THEN mergedSet ELSE sets[k]]
                     /\ visitPath' = PushIfAbsent(PushIfAbsent(visitPath, wall.from),
                                                  wall.to)
                ELSE UNCHANGED <<grid, sets, visitPath>>
  /\ UNCHANGED <<ctl, params, pc, steps, visited, start, stack, current, idx,
                 nextSetId, setVerticalPaths, row, col, run, division>>

\* lines 77-105: one iteration of the loop over shuffledWalls.
KruskalStep ==
  /\ alg = "KRUSKAL" /\ pc = "topology" /\ walls # {}
  /\ \E wall \in walls :
       LET setA == sets[wall.from]
           setB == sets[wall.to]
           mergedSet == setA \cup setB
       IN  /\ walls' = walls \ {wall}
           /\ IF setA # setB
                THEN /\ grid' = removeWallBetween(wall.from, wall.to, grid)
                     /\ sets' = [k \in DOMAIN sets |->
                                   IF k \in mergedSet THEN mergedSet ELSE sets[k]]
                     /\ visitPath' = PushIfAbsent(PushIfAbsent(visitPath, wall.from),
                                                  wall.to)
                ELSE UNCHANGED <<grid, sets, visitPath>>
  /\ UNCHANGED <<ctl, params, pc, steps, visited, start, stack, current, idx,
                 nextSetId, setVerticalPaths, row, col, run, division>>

\* lines 107-117
KruskalRecord ==
  /\ alg = "KRUSKAL" /\ pc = "topology" /\ walls = {}
  /\ RecordInitialState
  /\ UNCHANGED <<ctl, params, visitPath, start, stack, walls, current>>
  /\ UNCHANGED scanVars

\* lines 120-135
KruskalColor == ColorVisitPath("KRUSKAL")

\* lines 138-139
KruskalSweepBegin == SweepBegin("KRUSKAL")

\* lines 140-160
KruskalSweep == SweepCell("KRUSKAL")

\* line 164
KruskalReturn == SweepReturn("KRUSKAL")

NextKruskal ==
  \/ KruskalBegin \/ KruskalStep \/ KruskalRecord \/ KruskalColor
  \/ KruskalSweepBegin \/ KruskalSweep \/ KruskalReturn

SpecKruskal == InitFor("KRUSKAL") /\ [][NextKruskal]_vars

-----------------------------------------------------------------------------
(* algorithms/maze-generation/recursiveDivision.ts *)

Frame(x, y, w, h) == [startX |-> x, startY |-> y, width |-> w, height |-> h]

\* lines 22-32. `stack` holds the divideArea calls still to run, the next one
\* last: a call runs its first recursive call to the end before its second.
RDBegin ==
  /\ alg = "RECURSIVE_DIVISION" /\ pc = "begin"
  /\ stack' = <<Frame(0, 0, width, height)>>
  /\ pc' = "topology"
  /\ UNCHANGED <<ctl, params, grid, steps, visitPath, visited, start, walls, current, idx>>
  /\ UNCHANGED scanVars

\* lines 105-119, 144-146: a divideArea call is entered; it returns at once on an
\* area narrower than 2, else draws its axis, line and passage.
RDEnter ==
  /\ alg = "RECURSIVE_DIVISION" /\ pc = "topology" /\ Len(stack) > 0
  /\ LET f == stack[Len(stack)]
         rest == SubSeq(stack, 1, Len(stack) - 1)
     IN  /\ stack' = rest
         /\ IF f.width < 2 \/ f.height < 2
              THEN UNCHANGED <<pc, division>>
              ELSE /\ pc' = "divide"
                   /\ \E coin \in BOOLEAN :
                        LET horizontal == IF f.height > f.width THEN TRUE
                                          ELSE IF f.width > f.height THEN FALSE
                                          ELSE coin
                        IN  IF horizontal
                              THEN \E y \in (f.startY + 1)..(f.startY + f.height - 1),
                                      passageX \in f.startX..(f.startX + f.width - 1) :
                                     division' = [startX |-> f.startX, startY |-> f.startY,
                                                  width |-> f.width, height |-> f.height,
                                                  horizontal |-> TRUE, line |-> y,
                                                  passage |-> passageX, k |-> f.startX]
                              ELSE \E x \in (f.startX + 1)..(f.startX + f.width - 1),
                                      passageY \in f.startY..(f.startY + f.height - 1) :
                                     division' = [startX |-> f.startX, startY |-> f.startY,
                                                  width |-> f.width, height |-> f.height,
                                                  horizontal |-> FALSE, line |-> x,
                                                  passage |-> passageY, k |-> f.startY]
  /\ UNCHANGED <<ctl, params, grid, steps, visitPath, visited, start, walls, current, idx>>
  /\ UNCHANGED <<sets, nextSetId, setVerticalPaths, row, col, run>>

\* RDWall with the passage drawn one past the end of the line
\* (Math.floor(Math.random() * width) + 1 for the passage offset).
RDWallPassageOffByOne ==
  /\ alg = "RECURSIVE_DIVISION" /\ pc = "divide"
  /\ LET d == division
         more == IF d.horizontal THEN d.k < d.startX + d.width
                                 ELSE d.k < d.startY + d.height
         position == IF d.horizontal THEN Pos(d.line - 1, d.k) ELSE Pos(d.k, d.line - 1)
         wall == IF d.horizontal THEN "south" ELSE "east"
     IN  /\ more
         /\ IF d.k # d.passage + 1
              THEN /\ grid' = setVisited(position,
                                 setWallBetween(grid, position.row, position.col, wall))
                   /\ visitPath' = PushIfAbsent(visitPath, position)
              ELSE UNCHANGED <<grid, visitPath>>
         /\ division' = [d EXCEPT !.k = d.k + 1]
  /\ UNCHANGED <<ctl, params, pc, steps, visited, start, stack, walls, current, idx>>
  /\ UNCHANGED <<sets, nextSetId, setVerticalPaths, row, col, run>>

\* lines 122-136, 149-163: one iteration of the wall loop. The list
\* visitedDuringGeneration is written and never read; it is left out.
RDWall ==
  /\ alg = "RECURSIVE_DIVISION" /\ pc = "divide"
  /\ LET d == division
         more == IF d.horizontal THEN d.k < d.startX + d.width
                                 ELSE d.k < d.startY + d.height
         position == IF d.horizontal THEN Pos(d.line - 1, d.k) ELSE Pos(d.k, d.line - 1)
         wall == IF d.horizontal THEN "south" ELSE "east"
     IN  /\ more
         /\ IF d.k # d.passage
              THEN /\ grid' = setVisited(position,
                                 setWallBetween(grid, position.row, position.col, wall))
                   /\ visitPath' = PushIfAbsent(visitPath, position)
              ELSE UNCHANGED <<grid, visitPath>>
         /\ division' = [d EXCEPT !.k = d.k + 1]
  /\ UNCHANGED <<ctl, params, pc, steps, visited, start, stack, walls, current, idx>>
  /\ UNCHANGED <<sets, nextSetId, setVerticalPaths, row, col, run>>

\* lines 138-141, 165-168: the wall loop has ended; the two recursive calls.
RDRecurse ==
  /\ alg = "RECURSIVE_DIVISION" /\ pc = "divide"
  /\ LET d == division
         more == IF d.horizontal THEN d.k < d.startX + d.width
                                 ELSE d.k < d.startY + d.height
         first == IF d.horizontal
                    THEN Frame(d.startX, d.startY, d.width, d.line - d.startY)
                    ELSE Frame(d.startX, d.startY, d.line - d.startX, d.height)
         second == IF d.horizontal
                     THEN Frame(d.startX, d.line, d.width, d.height - (d.line - d.startY))
                     ELSE Frame(d.line, d.startY, d.width - (d.line - d.startX), d.height)
     IN  /\ ~more
         /\ stack' = stack \o <<second, first>>
  /\ division' = NoDivision
  /\ pc' = "topology"
  /\ UNCHANGED <<ctl, params, grid, steps, visitPath, visited, start, walls, current, idx>>
  /\ UNCHANGED <<sets, nextSetId, setVerticalPaths, row, col, run>>

\* lines 34-44
RDRecord ==
  /\ alg = "RECURSIVE_DIVISION" /\ pc = "topology" /\ Len(stack) = 0
  /\ RecordInitialState
  /\ UNCHANGED <<ctl, params, visitPath, start, stack, walls, current>>
  /\ UNCHANGED scanVars

\* lines 47-62
RDColor == ColorVisitPath("RECURSIVE_DIVISION")

\* lines 65-66
RDSweepBegin == SweepBegin("RECURSIVE_DIVISION")

\* lines 67-88
RDSweep == SweepCell("RECURSIVE_DIVISION")

\* line 91
RDReturn == SweepReturn("RECURSIVE_DIVISION")

NextRecursiveDivision ==
  \/ RDBegin \/ RDEnter \/ RDWall \/ RDRecurse \/ RDRecord \/ RDColor
  \/ RDSweepBegin \/ RDSweep \/ RDReturn

SpecRecursiveDivision == InitFor("RECURSIVE_DIVISION") /\ [][NextRecursiveDivision]_vars

-----------------------------------------------------------------------------
(* algorithms/maze-generation/aldousBroder.ts (prim.ts lines 137-245) *)

\* lines 162-184: random start, marked visited and recorded.
ABBegin ==
  /\ alg = "ALDOUS_BRODER" /\ pc = "begin"
  /\ \E s \in Positions(width, height) :
       /\ current' = s
       /\ grid' = setVisited(s, grid)
       /\ visited' = <<s>>
       /\ visitPath' = <<s>>
  /\ pc' = "topology"
  /\ UNCHANGED <<ctl, params, steps, start, stack, walls, idx>>
  /\ UNCHANGED scanVars

\* ABStep removing the wall on every move of the walk.
ABStepAlwaysRemove ==
  /\ alg = "ALDOUS_BRODER" /\ pc = "topology" /\ Len(visited) < width * height
  /\ LET neighbors == getNeighbors(current, grid, FALSE)
     IN  \E next \in Range(neighbors) :
           LET isNextVisited == isVisited(next, visited)
           IN  /\ visitPath' = PushIfAbsent(visitPath, next)
               /\ IF ~isNextVisited
                    THEN /\ grid' = setVisited(next, removeWallBetween(current, next, grid))
                         /\ visited' = Append(visited, next)
                    ELSE /\ grid' = removeWallBetween(current, next, grid)
                         /\ UNCHANGED visited
               /\ current' = next
  /\ UNCHANGED <<ctl, params, pc, steps, start, stack, walls, idx>>
  /\ UNCHANGED scanVars

\* ABStep that does not count the cell it reaches.
ABStepUncounted ==
  /\ alg = "ALDOUS_BRODER" /\ pc = "topology" /\ Len(visited) < width * height
  /\ LET neighbors == getNeighbors(current, grid, FALSE)
     IN  \E next \in Range(neighbors) :
           LET isNextVisited == isVisited(next, visited)
           IN  /\ visitPath' = PushIfAbsent(visitPath, next)
               /\ IF ~isNextVisited
                    THEN /\ grid' = setVisited(next, removeWallBetween(current, next, grid))
                         /\ UNCHANGED visited
                    ELSE UNCHANGED <<grid, visited>>
               /\ current' = next
  /\ UNCHANGED <<ctl, params, pc, steps, start, stack, walls, idx>>
  /\ UNCHANGED scanVars

\* lines 187-212: one iteration of the walk; `visited` is
\* cellsVisitedDuringGeneration and randomChoice(neighbors) any neighbour.
ABStep ==
  /\ alg = "ALDOUS_BRODER" /\ pc = "topology" /\ Len(visited) < width * height
  /\ LET neighbors == getNeighbors(current, grid, FALSE)
     IN  \E next \in Range(neighbors) :
           LET isNextVisited == isVisited(next, visited)
           IN  /\ visitPath' = PushIfAbsent(visitPath, next)
               /\ IF ~isNextVisited
                    THEN /\ grid' = setVisited(next, removeWallBetween(current, next, grid))
                         /\ visited' = Append(visited, next)
                    ELSE UNCHANGED <<grid, visited>>
               /\ current' = next
  /\ UNCHANGED <<ctl, params, pc, steps, start, stack, walls, idx>>
  /\ UNCHANGED scanVars

\* lines 214-224
ABRecord ==
  /\ alg = "ALDOUS_BRODER" /\ pc = "topology" /\ Len(visited) >= width * height
  /\ RecordInitialState
  /\ UNCHANGED <<ctl, params, visitPath, start, stack, walls, current>>
  /\ UNCHANGED scanVars

\* lines 227-242
ABColor == ColorVisitPath("ALDOUS_BRODER")

\* line 244
ABReturn == ReturnSteps("ALDOUS_BRODER")

NextAldousBroder == ABBegin \/ ABStep \/ ABRecord \/ ABColor \/ ABReturn

SpecAldousBroder == InitFor("ALDOUS_BRODER") /\ [][NextAldousBroder]_vars

-----------------------------------------------------------------------------
(* algorithms/index.ts: any of the eight generators, on any size. *)

Next ==
  \/ NextDFS \/ NextBinaryTree \/ NextSideWinder \/ NextEller
  \/ NextPrim \/ NextKruskal \/ NextRecursiveDivision \/ NextAldousBroder

Spec == Init /\ [][Next]_vars

\* The generators run to their end, from 1 x 1 on: the Aldous-Broder walk on
\* the grids of at most MaxCellsOrdered cells, the others on the grids of at
\* most MaxRunCells cells.  A generator is a sequential program, so a step that
\* can be taken is taken; randomChoice(neighbors) of the Aldous-Broder walk is
\* fair: a cell that can be chosen again and again is chosen again and again.
MaxRunCells == 4

RunSizes(a) ==
  {s \in (1..MaxWidth) \X (1..MaxHeight) :
     s[1] * s[2] <= IF a = "ALDOUS_BRODER" THEN MaxCellsOrdered ELSE MaxRunCells}

InitRun == \E a \in Algorithms : InitOn(a, RunSizes(a))

ABMoveTo(to) == ABStep /\ current' = to

RunPositions == Positions(MaxWidth, MaxHeight)

FairWalk == \A to \in RunPositions : SF_vars(ABMoveTo(to))

SpecRun == InitRun /\ [][Next]_vars /\ WF_vars(Next) /\ FairWalk

-----------------------------------------------------------------------------
(* algorithms/maze-solving/dfs.ts *)

\* The outcome of a call that may throw a TypeError by reading a property of
\* undefined: the value it returns, or none.
Returns(v) == [threw |-> FALSE, value |-> v]

Throws == [threw |-> TRUE, value |-> <<>>]

\* rebuildPath(parentMap, start, end): the loop, `path` being what is already
\* unshifted.  An empty path if a parent is missing.
RECURSIVE rebuildPathFrom(_, _, _, _)
rebuildPathFrom(parentMap, startCell, cur, path) ==
  IF areCellsEqual(cur, startCell)
    THEN <<startCell>> \o path
  ELSE IF cur \notin DOMAIN parentMap
    THEN <<>>
  ELSE rebuildPathFrom(parentMap, startCell, parentMap[cur], <<cur>> \o path)

\* rebuildPath that unshifts the end twice.
rebuildPathEndTwice(parentMap, startCell, endCell) ==
  rebuildPathFrom(parentMap, startCell, endCell, <<endCell>>)

rebuildPath(parentMap, startCell, endCell) ==
  rebuildPathFrom(parentMap, startCell, endCell, <<>>)

\* solveMazeDFS, the for loop over the neighbors of `cur`, from index i down:
\* an unvisited neighbor with no wall in between gets its parent, is pushed on
\* the stack and the visited list, and a step with the path to it is recorded.
RECURSIVE solveNeighbors(_, _, _, _, _, _)
solveNeighbors(i, neighbors, cur, cells, startCell, S) ==
  IF i < 1
    THEN S
    ELSE LET neighbor == neighbors[i]
             alreadyVisited == \E k \in DOMAIN S.visited :
                                 areCellsEqual(S.visited[k], neighbor)
             hasWall == hasWallBetween(cur, neighbor, cells)
         IN  IF ~alreadyVisited /\ ~hasWall
               THEN LET parentMap == [p \in DOMAIN S.parentMap \cup {neighbor} |->
                                        IF p = neighbor THEN cur ELSE S.parentMap[p]]
                        visited1 == Append(S.visited, neighbor)
                    IN  solveNeighbors(i - 1, neighbors, cur, cells, startCell,
                          [S EXCEPT
                             !.stack = Append(S.stack, neighbor),
                             !.visited = visited1,
                             !.parentMap = parentMap,
                             !.steps = Append(S.steps,
                                         [visitedCells |-> visited1,
                                          path |-> rebuildPath(parentMap, startCell, neighbor),
                                          currentCell |-> neighbor])])
               ELSE solveNeighbors(i - 1, neighbors, cur, cells, startCell, S)

\* One iteration asking getNeighbors for the unvisited neighbors only.
solveIterationUnvisitedOnly(S, cells, startCell, endCell) ==
  LET cur == S.stack[Len(S.stack)]
      popped == [S EXCEPT !.stack = SubSeq(S.stack, 1, Len(S.stack) - 1)]
  IN  IF areCellsEqual(cur, endCell)
        THEN [popped EXCEPT
                !.steps = Append(S.steps,
                            [visitedCells |-> S.visited,
                             path |-> rebuildPath(S.parentMap, startCell, endCell),
                             currentCell |-> endCell]),
                !.left = TRUE]
      ELSE IF DOMAIN cells = {}
        THEN [popped EXCEPT !.threw = TRUE, !.left = TRUE]
      ELSE solveNeighbors(Len(getNeighbors(cur, cells, TRUE)),
                          getNeighbors(cur, cells, TRUE), cur, cells, startCell, popped)

\* solveMazeDFS, one iteration of the while loop on the locals S: the top of the
\* stack is popped; if it is the end the final step is recorded and the loop is
\* left (break), otherwise its neighbors are handled.  getNeighbors throws
\* reading grid[0].length of an empty grid.
solveIteration(S, cells, startCell, endCell) ==
  LET cur == S.stack[Len(S.stack)]
      popped == [S EXCEPT !.stack = SubSeq(S.stack, 1, Len(S.stack) - 1)]
  IN  IF areCellsEqual(cur, endCell)
        THEN [popped EXCEPT
                !.steps = Append(S.steps,
                            [visitedCells |-> S.visited,
                             path |-> rebuildPath(S.parentMap, startCell, endCell),
                             currentCell |-> endCell]),
                !.left = TRUE]
      ELSE IF DOMAIN cells = {}
        THEN [popped EXCEPT !.threw = TRUE, !.left = TRUE]
      ELSE solveNeighbors(Len(getNeighbors(cur, cells, FALSE)),
                          getNeighbors(cur, cells, FALSE), cur, cells, startCell, popped)

\* solveMazeDFS, the while loop.
RECURSIVE solveLoop(_, _, _, _)
solveLoop(S, cells, startCell, endCell) ==
  IF Len(S.stack) = 0 \/ S.left
    THEN S
    ELSE solveLoop(solveIteration(S, cells, startCell, endCell),
                   cells, startCell, endCell)

\* The log solveMazeDFS returns when the loop has ended with the locals S: closed
\* by a step with an empty path and no current cell when the last recorded step
\* has an empty path.
solveResult(S) ==
  IF S.threw
    THEN Throws
  ELSE IF Len(S.steps[Len(S.steps)].path) = 0
    THEN Returns(Append(S.steps, [visitedCells |-> S.visited, path |-> <<>>,
                                  currentCell |-> Null]))
  ELSE Returns(S.steps)

\* solveMazeDFS(maze)
solveMazeDFS(maze) ==
  solveResult(
    solveLoop([stack |-> <<maze.start>>,
               visited |-> <<maze.start>>,
               parentMap |-> <<>>,
               steps |-> <<[visitedCells |-> <<maze.start>>, path |-> <<>>,
                            currentCell |-> maze.start]>>,
               left |-> FALSE,
               threw |-> FALSE],
              maze.cells, maze.start, maze.end))

-----------------------------------------------------------------------------
(* algorithms/maze-solving/bfs.ts: the solver the reducer calls when        *)
(* state.solvingAlgorithm is BFS.  Explicit queue; a cell gets its parent   *)
(* when it is discovered; each discovery emits a step with the path walked  *)
(* back through the parents, and so does the dequeue of the end.            *)

\* The neighbors of `cur` from index i up: an unvisited neighbor with no wall
\* in between is discovered.
RECURSIVE discoverNeighbors(_, _, _, _, _, _)
discoverNeighbors(i, neighbors, cur, cells, startCell, S) ==
  IF i > Len(neighbors)
    THEN S
    ELSE LET neighbor == neighbors[i]
             alreadyVisited == \E k \in DOMAIN S.visited :
                                 areCellsEqual(S.visited[k], neighbor)
             hasWall == hasWallBetween(cur, neighbor, cells)
         IN  IF ~alreadyVisited /\ ~hasWall
               THEN LET parentMap == [p \in DOMAIN S.parentMap \cup {neighbor} |->
                                        IF p = neighbor THEN cur ELSE S.parentMap[p]]
                        visited1 == Append(S.visited, neighbor)
                    IN  discoverNeighbors(i + 1, neighbors, cur, cells, startCell,
                          [S EXCEPT
                             !.queue = Append(S.queue, neighbor),
                             !.visited = visited1,
                             !.parentMap = parentMap,
                             !.steps = Append(S.steps,
                                         [visitedCells |-> visited1,
                                          path |-> rebuildPath(parentMap, startCell, neighbor),
                                          currentCell |-> neighbor])])
               ELSE discoverNeighbors(i + 1, neighbors, cur, cells, startCell, S)

\* One dequeue taking the cell discovered last.
dequeueIterationFromBack(S, cells, startCell, endCell) ==
  LET cur == S.queue[Len(S.queue)]
      shifted == [S EXCEPT !.queue = SubSeq(S.queue, 1, Len(S.queue) - 1)]
  IN  IF areCellsEqual(cur, endCell)
        THEN [shifted EXCEPT
                !.steps = Append(S.steps,
                            [visitedCells |-> S.visited,
                             path |-> rebuildPath(S.parentMap, startCell, endCell),
                             currentCell |-> endCell]),
                !.left = TRUE]
      ELSE IF DOMAIN cells = {}
        THEN [shifted EXCEPT !.threw = TRUE, !.left = TRUE]
      ELSE discoverNeighbors(1, getNeighbors(cur, cells, FALSE), cur, cells,
                             startCell, shifted)

\* One dequeue: the search stops when the end is dequeued.
dequeueIteration(S, cells, startCell, endCell) ==
  LET cur == Head(S.queue)
      shifted == [S EXCEPT !.queue = Tail(S.queue)]
  IN  IF areCellsEqual(cur, endCell)
        THEN [shifted EXCEPT
                !.steps = Append(S.steps,
                            [visitedCells |-> S.visited,
                             path |-> rebuildPath(S.parentMap, startCell, endCell),
                             currentCell |-> endCell]),
                !.left = TRUE]
      ELSE IF DOMAIN cells = {}
        THEN [shifted EXCEPT !.threw = TRUE, !.left = TRUE]
      ELSE discoverNeighbors(1, getNeighbors(cur, cells, FALSE), cur, cells,
                             startCell, shifted)

RECURSIVE dequeueLoop(_, _, _, _)
dequeueLoop(S, cells, startCell, endCell) ==
  IF Len(S.queue) = 0 \/ S.left
    THEN S
    ELSE dequeueLoop(dequeueIteration(S, cells, startCell, endCell),
                     cells, startCell, endCell)

\* solveMazeBFS(maze)
solveMazeBFS(maze) ==
  solveResult(
    dequeueLoop([queue |-> <<maze.start>>,
                 visited |-> <<maze.start>>,
                 parentMap |-> <<>>,
                 steps |-> <<[visitedCells |-> <<maze.start>>, path |-> <<>>,
                              currentCell |-> maze.start]>>,
                 left |-> FALSE,
                 threw |-> FALSE],
                maze.cells, maze.start, maze.end))

-----------------------------------------------------------------------------
(* hooks/useMaze: the reducer *)

\* The reading of Date.now(); the model keeps only that a time was taken.
DateNow == "now"

\* colorAllWalls(grid): every cell's coloredWalls becomes a copy of its walls.
colorAllWalls(g) ==
  [p \in DOMAIN g |->
     [g[p] EXCEPT !.coloredWalls = [d \in Directions |-> g[p].walls[d]]]]

\* hasWallBetween(a, b, grid) for adjacent a, b throws when it reads .walls of a
\* cell the grid does not have: the cell a, or the cell b if a's flag is false
\* (the || does not read b otherwise).
hasWallBetweenThrows(a, b, g) ==
  \/ a \notin DOMAIN g
  \/ /\ b \notin DOMAIN g
     /\ ~(IF a.row < b.row THEN g[a].walls.south
          ELSE IF a.row > b.row THEN g[a].walls.north
          ELSE IF a.col < b.col THEN g[a].walls.east
          ELSE g[a].walls.west)

\* case 'GENERATE_MAZE' that does not reset the solving log.
reduceGenerateMazeKeepsSolving(s, generatedSteps) ==
  LET useAnimation == s.generationAnimationEnabled
      n == Len(generatedSteps)
  IN  [s EXCEPT !.isGenerating = useAnimation,
                !.generationSteps = generatedSteps,
                !.currentGenerationStep = IF useAnimation THEN 0 ELSE n - 1,
                !.grid = generatedSteps[IF useAnimation THEN 1 ELSE n].cells,
                !.userPath = <<>>,
                !.startTime = Null,
                !.endTime = Null,
                !.solved = FALSE]

\* case 'GENERATE_MAZE' that puts the last step of the log on display whether
\* generation is animated or not.
reduceGenerateMazeShowsLast(s, generatedSteps) ==
  LET useAnimation == s.generationAnimationEnabled
      n == Len(generatedSteps)
      generationSteps ==
        IF ~useAnimation
          THEN [generatedSteps EXCEPT ![n].cells = colorAllWalls(generatedSteps[n].cells)]
          ELSE generatedSteps
  IN  [s EXCEPT !.isGenerating = useAnimation,
                !.generationSteps = generationSteps,
                !.currentGenerationStep = IF useAnimation THEN 0 ELSE n - 1,
                !.grid = generationSteps[n].cells,
                !.userPath = <<>>,
                !.solvingSteps = <<>>,
                !.currentSolvingStep = -1,
                !.isSolving = FALSE,
                !.startTime = Null,
                !.endTime = Null,
                !.solved = FALSE]

\* case 'GENERATE_MAZE', given the log the generator returned.
reduceGenerateMaze(s, generatedSteps) ==
  LET useAnimation == s.generationAnimationEnabled
      n == Len(generatedSteps)
      generationSteps ==
        IF ~useAnimation
          THEN [generatedSteps EXCEPT ![n].cells = colorAllWalls(generatedSteps[n].cells)]
          ELSE generatedSteps
  IN  [s EXCEPT !.isGenerating = useAnimation,
                !.generationSteps = generationSteps,
                !.currentGenerationStep = IF useAnimation THEN 0 ELSE n - 1,
                !.grid = generationSteps[IF useAnimation THEN 1 ELSE n].cells,
                !.userPath = <<>>,
                !.solvingSteps = <<>>,
                !.currentSolvingStep = -1,
                !.isSolving = FALSE,
                !.startTime = Null,
                !.endTime = Null,
                !.solved = FALSE]

\* case 'SOLVE_MAZE'
reduceSolveMaze(s) ==
  LET maze == [cells |-> s.grid, width |-> s.width, height |-> s.height,
               start |-> s.start, end |-> s.end]
      solving == IF s.solvingAlgorithm = "BFS"
                   THEN solveMazeBFS(maze)
                   ELSE solveMazeDFS(maze)
      solvingSteps == solving.value
      useAnimation == s.solvingAnimationEnabled
  IN  IF solving.threw
        THEN Throws
        ELSE Returns(
          [s EXCEPT !.isSolving = useAnimation,
                    !.solvingSteps = solvingSteps,
                    !.currentSolvingStep =
                       IF useAnimation THEN 0 ELSE Len(solvingSteps) - 1,
                    !.userPath = <<>>,
                    !.startTime = IF s.startTime # Null THEN s.startTime ELSE DateNow,
                    !.endTime = IF ~useAnimation THEN DateNow ELSE Null,
                    !.solved = ~useAnimation])

\* case 'ADD_USER_PATH' without the hasWallBetween test.
reduceAddUserPathThroughWalls(s, newPosition) ==
  LET userPath == s.userPath
      lastPosition == userPath[Len(userPath)]
      isAdjacent ==
        \/ Abs(newPosition.row - lastPosition.row) = 1 /\ newPosition.col = lastPosition.col
        \/ Abs(newPosition.col - lastPosition.col) = 1 /\ newPosition.row = lastPosition.row
      index == CHOOSE k \in DOMAIN userPath :
                 /\ areCellsEqual(userPath[k], newPosition)
                 /\ \A j \in 1..(k - 1) : ~areCellsEqual(userPath[j], newPosition)
      reachedEnd == areCellsEqual(newPosition, s.end)
  IN  IF s.isGenerating \/ s.isSolving
        THEN Returns(s)
      ELSE IF Len(userPath) = 0
        THEN IF areCellsEqual(newPosition, s.start)
               THEN Returns([s EXCEPT !.userPath = <<newPosition>>,
                                      !.startTime = IF s.startTime = Null
                                                      THEN DateNow
                                                      ELSE s.startTime])
               ELSE Returns(s)
      ELSE IF ~isAdjacent
        THEN Returns(s)
      ELSE IF \E k \in DOMAIN userPath : areCellsEqual(userPath[k], newPosition)
        THEN Returns([s EXCEPT !.userPath = SubSeq(userPath, 1, index)])
      ELSE Returns([s EXCEPT !.userPath = Append(userPath, newPosition),
                             !.endTime = IF reachedEnd THEN DateNow ELSE s.endTime,
                             !.solved = reachedEnd])

\* case 'ADD_USER_PATH'
reduceAddUserPath(s, newPosition) ==
  LET userPath == s.userPath
      lastPosition == userPath[Len(userPath)]
      isAdjacent ==
        \/ Abs(newPosition.row - lastPosition.row) = 1 /\ newPosition.col = lastPosition.col
        \/ Abs(newPosition.col - lastPosition.col) = 1 /\ newPosition.row = lastPosition.row
      index == CHOOSE k \in DOMAIN userPath :
                 /\ areCellsEqual(userPath[k], newPosition)
                 /\ \A j \in 1..(k - 1) : ~areCellsEqual(userPath[j], newPosition)
      reachedEnd == areCellsEqual(newPosition, s.end)
  IN  IF s.isGenerating \/ s.isSolving
        THEN Returns(s)
      ELSE IF Len(userPath) = 0
        THEN IF areCellsEqual(newPosition, s.start)
               THEN Returns([s EXCEPT !.userPath = <<newPosition>>,
                                      !.startTime = IF s.startTime = Null
                                                      THEN DateNow
                                                      ELSE s.startTime])
               ELSE Returns(s)
      ELSE IF ~isAdjacent
        THEN Returns(s)
      ELSE IF hasWallBetweenThrows(lastPosition, newPosition, s.grid)
        THEN Throws
      ELSE IF hasWallBetween(lastPosition, newPosition, s.grid)
        THEN Returns(s)
      ELSE IF \E k \in DOMAIN userPath : areCellsEqual(userPath[k], newPosition)
        THEN Returns([s EXCEPT !.userPath = SubSeq(userPath, 1, index)])
      ELSE Returns([s EXCEPT !.userPath = Append(userPath, newPosition),
                             !.endTime = IF reachedEnd THEN DateNow ELSE s.endTime,
                             !.solved = reachedEnd])

\* case 'RESET_CURRENT_MAZE' that leaves the solving log in place.
reduceResetCurrentMazeKeepsLog(s) ==
  [s EXCEPT !.userPath = <<>>,
            !.currentSolvingStep = -1,
            !.isSolving = FALSE,
            !.startTime = Null,
            !.endTime = Null,
            !.solved = FALSE]

\* case 'RESET_CURRENT_MAZE'
reduceResetCurrentMaze(s) ==
  [s EXCEPT !.userPath = <<>>,
            !.solvingSteps = <<>>,
            !.currentSolvingStep = -1,
            !.isSolving = FALSE,
            !.startTime = Null,
            !.endTime = Null,
            !.solved = FALSE]

\* const mazeReducer = (state, action) => ...; the action of type GENERATE_MAZE
\* carries the log the generator call made in that case returns.
mazeReducer(s, action) ==
  CASE action.type = "SET_SIZE" ->
         Returns([s EXCEPT !.width = action.width,
                           !.height = action.height,
                           !.end = Pos(action.height - 1, action.width - 1)])
    [] action.type = "SET_GENERATION_ALGORITHM" ->
         Returns([s EXCEPT !.generationAlgorithm = action.algorithm])
    [] action.type = "GENERATE_MAZE" ->
         Returns(reduceGenerateMaze(s, action.generationSteps))
    [] action.type = "SOLVE_MAZE" -> reduceSolveMaze(s)
    [] action.type = "SET_GENERATION_STEP" ->
         IF action.step < 0 \/ action.step >= Len(s.generationSteps)
           THEN Returns(s)
           ELSE Returns(
             [s EXCEPT !.currentGenerationStep = action.step,
                       !.grid = s.generationSteps[action.step + 1].cells,
                       !.isGenerating = action.step < Len(s.generationSteps) - 1])
    [] action.type = "SET_SOLVING_STEP" ->
         IF action.step < 0 \/ action.step >= Len(s.solvingSteps)
           THEN Returns(s)
           ELSE Returns(
             [s EXCEPT !.currentSolvingStep = action.step,
                       !.isSolving = action.step < Len(s.solvingSteps) - 1,
                       !.solved = (action.step = Len(s.solvingSteps) - 1)])
    [] action.type = "SET_GENERATION_ANIMATION_ENABLED" ->
         Returns([s EXCEPT !.generationAnimationEnabled = action.enabled])
    [] action.type = "SET_SOLVING_ANIMATION_ENABLED" ->
         Returns([s EXCEPT !.solvingAnimationEnabled = action.enabled])
    [] action.type = "SET_ANIMATION_PLAYING" ->
         Returns([s EXCEPT !.animationPlaying = action.playing])
    [] action.type = "ADD_USER_PATH" -> reduceAddUserPath(s, action.position)
    [] action.type = "CLEAR_USER_PATH" ->
         Returns([s EXCEPT !.userPath = <<>>,
                           !.startTime = Null,
                           !.endTime = Null,
                           !.solved = FALSE])
    [] action.type = "RESET_CURRENT_MAZE" -> Returns(reduceResetCurrentMaze(s))
    [] action.type = "RESET_MAZE" ->
         Returns([initialState EXCEPT
                    !.width = s.width,
                    !.height = s.height,
                    !.end = Pos(s.height - 1, s.width - 1),
                    !.generationAlgorithm = s.generationAlgorithm,
                    !.solvingAlgorithm = s.solvingAlgorithm,
                    !.generationAnimationEnabled = s.generationAnimationEnabled,
                    !.solvingAnimationEnabled = s.solvingAnimationEnabled,
                    !.animationSpeed = s.animationSpeed])
    [] action.type = "START_TIMER" -> Returns([s EXCEPT !.startTime = DateNow])
    [] action.type = "STOP_TIMER" -> Returns([s EXCEPT !.endTime = DateNow])
    [] OTHER -> Returns(s)

\* The actions one handler dispatches, reduced in order; nothing is committed
\* once one throws.
RECURSIVE dispatchAll(_, _)
dispatchAll(s, actions) ==
  IF Len(actions) = 0
    THEN Returns(s)
    ELSE LET r == mazeReducer(s, Head(actions))
         IN  IF r.threw THEN Throws ELSE dispatchAll(r.value, Tail(actions))

-----------------------------------------------------------------------------
(* hooks/useMaze: the hook.  One action per callback or timer tick: the     *)
(* actions it dispatches are reduced in order and the two effects run on    *)
(* the state that results.  generateMaze is the one callback that spans     *)
(* several steps of the model: the generator it calls runs its own actions  *)
(* between generateMaze and generateMazeReturn, and no other callback or    *)
(* tick runs in between.                                                    *)

\* The controller generates mazes of at most MaxPlayCells cells and offers the
\* sizes of height 2 and the generators of PlayAlgorithms.
MaxPlayCells == 4

PlaySizes == {<<w, 2>> : w \in 2..MaxWidth}

PlayAlgorithms == {"DFS", "BINARY_TREE"}

\* The positions a caller passes to addUserPath.
PlayPositions == Positions(MaxWidth, MaxHeight)

generatorVars == <<alg, width, height, pc, grid, steps, visitPath, visited, start,
                   stack, walls, sets, nextSetId, setVerticalPaths, row, col, run,
                   current, division, idx>>

\* No timeout pending.
NoTimer == [type |-> Null, step |-> -1]

\* The conditions under which the animation effect sets a timeout.
generationPlayable(s) ==
  /\ s.isGenerating
  /\ s.currentGenerationStep < Len(s.generationSteps) - 1
  /\ s.generationAnimationEnabled

solvingPlayable(s) ==
  /\ s.isSolving
  /\ s.currentSolvingStep < Len(s.solvingSteps) - 1
  /\ s.solvingAnimationEnabled

\* The effects without the animation effect's last branch: playback is never
\* switched off.
runEffectsKeepsPlaying(s) ==
  IF /\ s.currentGenerationStep = Len(s.generationSteps) - 1
     /\ s.startTime = Null
     /\ ~s.isSolving
    THEN [s EXCEPT !.startTime = DateNow]
    ELSE s

\* The state once the effects have run: the animation effect dispatches
\* SET_ANIMATION_PLAYING false when playing with nothing to play, the timer
\* effect dispatches START_TIMER when the generation step is the last of the log,
\* startTime is null and the maze is not being solved.
runEffects(s) ==
  LET s1 == IF s.animationPlaying /\ ~generationPlayable(s) /\ ~solvingPlayable(s)
              THEN [s EXCEPT !.animationPlaying = FALSE]
              ELSE s
      s2 == IF /\ s1.currentGenerationStep = Len(s1.generationSteps) - 1
               /\ s1.startTime = Null
               /\ ~s1.isSolving
              THEN [s1 EXCEPT !.startTime = DateNow]
              ELSE s1
  IN  s2

\* The timeout set for the step after the next.
scheduledTimerSkips(s) ==
  IF s.animationPlaying /\ generationPlayable(s)
    THEN [type |-> "SET_GENERATION_STEP", step |-> s.currentGenerationStep + 2]
  ELSE IF s.animationPlaying /\ solvingPlayable(s)
    THEN [type |-> "SET_SOLVING_STEP", step |-> s.currentSolvingStep + 2]
  ELSE NoTimer

\* The timeout the animation effect leaves pending in state s: the effect
\* clears the previous one whenever it runs again.
scheduledTimer(s) ==
  IF s.animationPlaying /\ generationPlayable(s)
    THEN [type |-> "SET_GENERATION_STEP", step |-> s.currentGenerationStep + 1]
  ELSE IF s.animationPlaying /\ solvingPlayable(s)
    THEN [type |-> "SET_SOLVING_STEP", step |-> s.currentSolvingStep + 1]
  ELSE NoTimer

\* No generator call is running and no exception has unmounted the hook.
Ready == pc = "idle" /\ ~error

\* What a handler that dispatches `actions` in state s leaves: the actions are
\* reduced in order and the effects run on the result.  A reducer that throws
\* commits nothing and unmounts the hook.
outcome(s, actions) ==
  LET r == dispatchAll(s, actions)
  IN  IF r.threw
        THEN [state |-> s, error |-> TRUE]
        ELSE [state |-> runEffects(r.value), error |-> FALSE]

\* The render that follows a handler.
Render(actions) ==
  \E o \in {outcome(state, actions)} :
    /\ state' = o.state
    /\ error' = o.error
    /\ animationTimer' = IF o.error THEN NoTimer ELSE scheduledTimer(o.state)

Handle(actions) == Render(actions) /\ UNCHANGED generatorVars

\* The hook as mounted: initialState, on which the effects have run.
InitController ==
  /\ alg = Null /\ width = 0 /\ height = 0
  /\ pc = "idle"
  /\ grid = <<>>
  /\ steps = <<>>
  /\ visitPath = <<>>
  /\ visited = <<>>
  /\ start = Pos(0, 0)
  /\ stack = <<>>
  /\ walls = <<>>
  /\ sets = <<>>
  /\ nextSetId = 1
  /\ setVerticalPaths = {}
  /\ row = 0
  /\ col = 0
  /\ run = <<>>
  /\ current = Pos(0, 0)
  /\ division = NoDivision
  /\ idx = 1
  /\ state = runEffects(initialState)
  /\ animationTimer = NoTimer
  /\ error = FALSE

\* generateMaze in state s, the generator returning generatedSteps: GENERATE_MAZE,
\* then SET_ANIMATION_PLAYING true if generation animation is enabled.
generateMazeDispatches(s, generatedSteps) ==
  <<[type |-> "GENERATE_MAZE", generationSteps |-> generatedSteps]>> \o
  (IF s.generationAnimationEnabled
     THEN <<[type |-> "SET_ANIMATION_PLAYING", playing |-> TRUE]>>
     ELSE <<>>)

\* The log a generator call has yet to return.
PendingLog == <<[cells |-> <<>>]>>

\* generateMaze: dispatch GENERATE_MAZE.  The reducer calls the generator of
\* state.generationAlgorithm with state.width and state.height; what GENERATE_MAZE
\* assigns is reduced here with the log pending, and again with the log when
\* the generator has returned.
generateMaze ==
  /\ Ready
  /\ state.generationAlgorithm \in PlayAlgorithms
  /\ state.width * state.height <= MaxPlayCells
  /\ alg' = state.generationAlgorithm
  /\ width' = state.width
  /\ height' = state.height
  /\ pc' = "begin"
  /\ grid' = createGrid(state.width, state.height)
  /\ state' = reduceGenerateMaze(state, PendingLog)
  /\ animationTimer' = NoTimer
  /\ UNCHANGED <<error, steps, visitPath, visited, start, stack, walls, sets,
                 nextSetId, setVerticalPaths, row, col, run, current, division, idx>>

\* The generator has returned its log.
generateMazeReturn ==
  /\ pc = "done" /\ ~error
  /\ Render(generateMazeDispatches(state, steps))
  /\ alg' = Null /\ width' = 0 /\ height' = 0
  /\ pc' = "idle"
  /\ grid' = <<>>
  /\ steps' = <<>>
  /\ visitPath' = <<>>
  /\ visited' = <<>>
  /\ start' = Pos(0, 0)
  /\ stack' = <<>>
  /\ walls' = <<>>
  /\ sets' = <<>>
  /\ nextSetId' = 1
  /\ setVerticalPaths' = {}
  /\ row' = 0
  /\ col' = 0
  /\ run' = <<>>
  /\ current' = Pos(0, 0)
  /\ division' = NoDivision
  /\ idx' = 1

\* solveMaze without the test of the generation step.
solveMazeDispatchesAnyStep(s) ==
  <<[type |-> "SOLVE_MAZE"]>> \o
  (IF s.solvingAnimationEnabled
     THEN <<[type |-> "SET_ANIMATION_PLAYING", playing |-> TRUE]>>
     ELSE <<>>)

\* solveMaze in state s dispatches nothing unless the generation step is the
\* last of the log.
solveMazeDispatches(s) ==
  IF s.currentGenerationStep = Len(s.generationSteps) - 1
    THEN <<[type |-> "SOLVE_MAZE"]>> \o
         (IF s.solvingAnimationEnabled
            THEN <<[type |-> "SET_ANIMATION_PLAYING", playing |-> TRUE]>>
            ELSE <<>>)
    ELSE <<>>

solveMaze == Ready /\ Handle(solveMazeDispatches(state))

setMazeSize ==
  /\ Ready
  /\ \E s \in PlaySizes :
       Handle(<<[type |-> "SET_SIZE", width |-> s[1], height |-> s[2]]>>)

setGenerationAlgorithm ==
  /\ Ready
  /\ \E a \in PlayAlgorithms :
       Handle(<<[type |-> "SET_GENERATION_ALGORITHM", algorithm |-> a]>>)

setGenerationAnimationEnabled ==
  /\ Ready
  /\ \E enabled \in BOOLEAN :
       Handle(<<[type |-> "SET_GENERATION_ANIMATION_ENABLED", enabled |-> enabled]>>)

setSolvingAnimationEnabled ==
  /\ Ready
  /\ \E enabled \in BOOLEAN :
       Handle(<<[type |-> "SET_SOLVING_ANIMATION_ENABLED", enabled |-> enabled]>>)

toggleAnimationPlaying ==
  /\ Ready
  /\ Handle(<<[type |-> "SET_ANIMATION_PLAYING", playing |-> ~state.animationPlaying]>>)

\* completeGeneration skipping to the step before the last.
completeGenerationDispatchesShort(s) ==
  IF s.isGenerating /\ s.currentGenerationStep < Len(s.generationSteps) - 1
    THEN <<[type |-> "SET_GENERATION_STEP", step |-> Len(s.generationSteps) - 2],
           [type |-> "SET_ANIMATION_PLAYING", playing |-> FALSE]>>
    ELSE <<>>

completeGenerationDispatches(s) ==
  IF s.isGenerating /\ s.currentGenerationStep < Len(s.generationSteps) - 1
    THEN <<[type |-> "SET_GENERATION_STEP", step |-> Len(s.generationSteps) - 1],
           [type |-> "SET_ANIMATION_PLAYING", playing |-> FALSE]>>
    ELSE <<>>

completeGeneration == Ready /\ Handle(completeGenerationDispatches(state))

completeSolvingDispatches(s) ==
  IF s.isSolving /\ s.currentSolvingStep < Len(s.solvingSteps) - 1
    THEN <<[type |-> "SET_SOLVING_STEP", step |-> Len(s.solvingSteps) - 1],
           [type |-> "SET_ANIMATION_PLAYING", playing |-> FALSE]>>
    ELSE <<>>

completeSolving == Ready /\ Handle(completeSolvingDispatches(state))

addUserPath ==
  /\ Ready
  /\ \E position \in PlayPositions :
       Handle(<<[type |-> "ADD_USER_PATH", position |-> position]>>)

clearUserPath ==
  /\ Ready
  /\ Handle(<<[type |-> "CLEAR_USER_PATH"]>>)

resetCurrentMaze ==
  /\ Ready
  /\ Handle(<<[type |-> "RESET_CURRENT_MAZE"]>>)

resetMaze ==
  /\ Ready
  /\ Handle(<<[type |-> "RESET_MAZE"]>>)

\* The pending timeout fires: its callback dispatches the step it was set for.
Tick ==
  /\ Ready
  /\ animationTimer.type # Null
  /\ Handle(<<[type |-> animationTimer.type, step |-> animationTimer.step]>>)

Command ==
  \/ solveMaze \/ setMazeSize \/ setGenerationAlgorithm
  \/ setGenerationAnimationEnabled \/ setSolvingAnimationEnabled
  \/ toggleAnimationPlaying \/ completeGeneration \/ completeSolving
  \/ addUserPath \/ clearUserPath \/ resetCurrentMaze \/ resetMaze

NextController ==
  \/ generateMaze \/ generateMazeReturn
  \/ NextDFS \/ NextBinaryTree
  \/ Command
  \/ Tick

SpecController == InitController /\ [][NextController]_vars

\* No timeout is pending: nothing is being played back.
Quiet == animationTimer = NoTimer

\* The hook while a playback is left to itself: callbacks are called only when
\* no timeout is pending.
QuietCommand == Quiet /\ Command

QuietGenerateMaze == Quiet /\ generateMaze

NextPlayback ==
  \/ QuietGenerateMaze \/ generateMazeReturn
  \/ NextDFS \/ NextBinaryTree
  \/ QuietCommand
  \/ Tick

\* A timeout that is set fires unless the effect clears it first.
SpecPlayback == InitController /\ [][NextPlayback]_vars /\ WF_vars(Tick)

-----------------------------------------------------------------------------
(* algorithms/maze-solving/dfs.ts called on any maze: the reducer's SOLVE_MAZE   *)
(* case applied to a state that holds a grid with any set of open passages, *)
(* any start and any end.                                                   *)

\* The solver is called on grids of at most MaxSolveCells cells.
MaxSolveCells == 6

\* The keys of mazeSolvingAlgorithms.
SolvingAlgorithms == {"DFS", "BFS"}

SolverSizes ==
  {sz \in (1..MaxWidth) \X (1..MaxHeight) : sz[1] * sz[2] <= MaxSolveCells}

\* The pairs of orthogonally adjacent cells of a w x h grid.
SolverEdges(w, h) ==
  {e \in SUBSET Positions(w, h) :
     \E a, b \in e : e = {a, b} /\ Abs(a.row - b.row) + Abs(a.col - b.col) = 1}

\* The w x h grid in which the walls between the pairs of `open` are removed
\* on both sides and every other wall stands.
gridWithPassages(w, h, open) ==
  [p \in Positions(w, h) |->
     [createCell EXCEPT
        !.walls = [north |-> {p, Pos(p.row - 1, p.col)} \notin open,
                   east  |-> {p, Pos(p.row, p.col + 1)} \notin open,
                   south |-> {p, Pos(p.row + 1, p.col)} \notin open,
                   west  |-> {p, Pos(p.row, p.col - 1)} \notin open]]]

InitSolver ==
  /\ alg = Null /\ width = 0 /\ height = 0
  /\ pc = "idle"
  /\ grid = <<>>
  /\ steps = <<>>
  /\ visitPath = <<>>
  /\ visited = <<>>
  /\ start = Pos(0, 0)
  /\ stack = <<>>
  /\ walls = <<>>
  /\ sets = <<>>
  /\ nextSetId = 1
  /\ setVerticalPaths = {}
  /\ row = 0
  /\ col = 0
  /\ run = <<>>
  /\ current = Pos(0, 0)
  /\ division = NoDivision
  /\ idx = 1
  /\ animationTimer = NoTimer
  /\ error = FALSE
  /\ \E sz \in SolverSizes :
       \E open \in SUBSET SolverEdges(sz[1], sz[2]) :
         \E a, b \in Positions(sz[1], sz[2]), solver \in SolvingAlgorithms :
           state = [initialState EXCEPT
                      !.width = sz[1],
                      !.height = sz[2],
                      !.grid = gridWithPassages(sz[1], sz[2], open),
                      !.start = a,
                      !.end = b,
                      !.solvingAlgorithm = solver]

\* SOLVE_MAZE is reduced: solveMazeDFS is called on the maze of the state.
SolverCall ==
  /\ ~error
  /\ Len(state.solvingSteps) = 0
  /\ \E r \in {reduceSolveMaze(state)} :
       /\ error' = r.threw
       /\ state' = IF r.threw THEN state ELSE r.value
  /\ UNCHANGED animationTimer
  /\ UNCHANGED generatorVars

NextSolver == SolverCall

SpecSolver == InitSolver /\ [][NextSolver]_vars

-----------------------------------------------------------------------------
(* The passage graph of a grid. *)

Adjacent(a, b) == Abs(a.row - b.row) + Abs(a.col - b.col) = 1

\* The orthogonally adjacent pairs with no wall between them, each named by its
\* north or west cell and the side the other cell lies on.
Passages(g) ==
  {e \in (DOMAIN g) \X {"east", "south"} :
     LET a == e[1]
         b == IF e[2] = "east" THEN Pos(a.row, a.col + 1) ELSE Pos(a.row + 1, a.col)
     IN  b \in DOMAIN g /\ ~hasWallBetween(a, b, g)}

\* The cells one passage away from a cell of S.
Step(S, g) ==
  {b \in (DOMAIN g) \ S : \E a \in S : Adjacent(a, b) /\ ~hasWallBetween(a, b, g)}

RECURSIVE ReachableFrom(_, _)
ReachableFrom(S, g) ==
  LET new == Step(S, g)
  IN  IF new = {} THEN S ELSE ReachableFrom(S \cup new, g)

\* hasWallBetween(a, b) = hasWallBetween(b, a), so the passage graph is
\* undirected and it is connected when one cell reaches all.
Connected(g) == ReachableFrom({Pos(0, 0)}, g) = DOMAIN g

PerfectMaze(g) ==
  /\ Connected(g)
  /\ Cardinality(Passages(g)) = GridWidth(g) * GridHeight(g) - 1

\* The first phase has ended: the topology is final.
TopologyDone == pc \in {"coloring", "sweep", "done"}

\* The log is returned and every snapshot in it, like the grid itself, is a
\* perfect maze.
LogPerfect ==
  pc = "done" => /\ PerfectMaze(grid)
                 /\ \A i \in DOMAIN steps : PerfectMaze(steps[i].cells)

\* Some wall flag differs between two grids.
WallsDiffer(g1, g2) == \E p \in DOMAIN g1 : g1[p].walls # g2[p].walls

-----------------------------------------------------------------------------
(* The claims. *)

\* C1: for every width, height >= 2 and all random choices, the topology
\* generateMazeDFS produces - the grid when the carving loop has ended and the
\* walls of every step of the returned log - is a perfect maze: its passage
\* graph is connected and has exactly width*height - 1 edges.
C1_DFSPerfectMaze == alg = "DFS" => LogPerfect

C1_Witness ==
  /\ alg = "DFS" /\ pc = "done" /\ width = 3 /\ height = 3
  /\ Len(steps) > 9 /\ PerfectMaze(steps[Len(steps)].cells)

\* Every set of the current row has a cell with an open south wall.
EllerVerticalLinks ==
  \A c \in 1..width :
    \E d \in 1..width : sets[d] = sets[c] /\ ~grid[Pos(row, d - 1)].walls.south

\* All cells of the current row carry one set id.
EllerRowMerged == \A c \in 1..width : sets[c] = sets[1]

\* The wall east of (row, col) is present before the step and absent after it.
EastWallOpened == /\ hasWallBetween(Pos(row, col), Pos(row, col + 1), grid)
                  /\ ~hasWallBetween(Pos(row, col), Pos(row, col + 1), grid')

\* A step of the horizontal loop changes walls only by opening the east wall of
\* (row, col), and only if the two cells are in different sets; a step of the
\* last row's loop opens that wall exactly if they are in different sets.
EllerMergeRule ==
  /\ (alg = "ELLER" /\ pc = "horizontal" /\ WallsDiffer(grid, grid')) =>
       (EastWallOpened /\ sets[col + 1] # sets[col + 2])
  /\ (alg = "ELLER" /\ pc = "lastRow" /\ col < width - 1) =>
       (EastWallOpened <=> sets[col + 1] # sets[col + 2])

\* C2: for every width, height >= 2 and all random choices generateMazeEller
\* yields a perfect maze: a horizontal merge happens only between cells of
\* different sets; when the vertical loop of a non-final row has ended every set
\* of the row has at least one vertical link; the last row's loop opens the wall
\* between adjacent cells exactly if their sets differ and leaves the row in one
\* set; and the grid and every snapshot of the returned log are connected with
\* exactly width*height - 1 passages.
C2_EllerPerfectMaze ==
  /\ [](alg = "ELLER" =>
          /\ LogPerfect
          /\ (pc = "vertical" /\ col >= width) => EllerVerticalLinks
          /\ (pc = "lastRow" /\ col >= width - 1) => EllerRowMerged)
  /\ [][EllerMergeRule]_vars

C2_Witness ==
  /\ alg = "ELLER" /\ pc = "done" /\ width = 3 /\ height = 3
  /\ PerfectMaze(steps[1].cells)
  /\ ~hasWallBetween(Pos(0, 0), Pos(0, 1), grid)
  /\ ~hasWallBetween(Pos(2, 1), Pos(2, 2), grid)
  /\ Cardinality({c \in 0..2 : ~grid[Pos(0, c)].walls.south}) = 2

\* The passages across the line the running divideArea call has drawn.
DivisionPassages ==
  LET d == division
  IN  IF d.horizontal
        THEN {x \in d.startX..(d.startX + d.width - 1) :
                ~hasWallBetween(Pos(d.line - 1, x), Pos(d.line, x), grid)}
        ELSE {y \in d.startY..(d.startY + d.height - 1) :
                ~hasWallBetween(Pos(y, d.line - 1), Pos(y, d.line), grid)}

\* The wall loop of the running divideArea call has ended.
DivisionDrawn ==
  /\ pc = "divide"
  /\ IF division.horizontal THEN division.k >= division.startX + division.width
                            ELSE division.k >= division.startY + division.height

\* Only the outer boundary carries walls.
OnlyBoundaryWalls(g) ==
  \A p \in DOMAIN g :
    /\ g[p].walls.north <=> p.row = 0
    /\ g[p].walls.south <=> p.row = GridHeight(g) - 1
    /\ g[p].walls.west <=> p.col = 0
    /\ g[p].walls.east <=> p.col = GridWidth(g) - 1

\* C3: for every width, height >= 2 and all axis/offset/passage choices
\* generateMazeRecursiveDivision yields a perfect maze: it starts from a grid
\* with only the boundary walls, a divideArea call draws a wall only on an area
\* at least 2 cells wide and high, the wall it has drawn spans the area with
\* exactly one passage (the one it chose), and the grid and every snapshot of
\* the returned log are connected with exactly width*height - 1 passages.
C3_RecursiveDivisionPerfectMaze ==
  alg = "RECURSIVE_DIVISION" =>
    /\ LogPerfect
    /\ pc = "begin" => OnlyBoundaryWalls(grid)
    /\ pc = "divide" => division.width >= 2 /\ division.height >= 2
    /\ DivisionDrawn => DivisionPassages = {division.passage}

C3_Witness ==
  /\ alg = "RECURSIVE_DIVISION" /\ pc = "done" /\ width = 3 /\ height = 3
  /\ PerfectMaze(steps[Len(steps)].cells)
  /\ hasWallBetween(Pos(0, 0), Pos(1, 0), grid)
  /\ hasWallBetween(Pos(1, 1), Pos(1, 2), grid)

\* A step of Kruskal's loop: the wall it considers is the one that leaves
\* `walls`; it is removed from the grid if and only if its two cells are in
\* different sets, and no other wall changes.
KruskalRemovalRule ==
  (alg = "KRUSKAL" /\ pc = "topology" /\ walls' # walls) =>
    LET wall == CHOOSE w \in walls : w \notin walls'
    IN  /\ hasWallBetween(wall.from, wall.to, grid)
        /\ IF sets[wall.from] # sets[wall.to]
             THEN grid' = removeWallBetween(wall.from, wall.to, grid)
                  /\ ~hasWallBetween(wall.from, wall.to, grid')
             ELSE grid' = grid

\* C4: for every width, height >= 2 and every shuffle order generateMazeKruskal
\* removes a wall if and only if its two cells are in different sets when the
\* wall is considered, and the resulting passage graph (the grid and every
\* snapshot of the returned log) is a spanning tree.
C4_KruskalSpanningTree ==
  /\ [](alg = "KRUSKAL" => LogPerfect)
  /\ [][KruskalRemovalRule]_vars

C4_Witness ==
  /\ alg = "KRUSKAL" /\ pc = "done" /\ width = 3 /\ height = 2
  /\ PerfectMaze(steps[Len(steps)].cells)
  /\ hasWallBetween(Pos(0, 1), Pos(1, 1), grid)
  /\ Len(visitPath) = 6

\* A step of Prim's loop changes walls only by opening a candidate wall whose
\* far cell is not visited yet.
PrimOpeningRule ==
  (alg = "PRIM" /\ pc = "topology" /\ WallsDiffer(grid, grid')) =>
    \E i \in DOMAIN walls :
      /\ ~isVisited(walls[i].to, visited) /\ ~grid[walls[i].to].visited
      /\ grid' = setVisited(walls[i].to,
                             removeWallBetween(walls[i].from, walls[i].to, grid))

\* C5: for every width, height >= 2 and all random choices generateMazePrim
\* yields a perfect maze: a candidate wall is opened only when its far cell is
\* still unvisited, the main loop has ended only with an empty candidate list,
\* and the grid and every snapshot of the returned log are connected with
\* exactly width*height - 1 passages.
C5_PrimPerfectMaze ==
  /\ [](alg = "PRIM" => /\ LogPerfect
                        /\ TopologyDone => walls = <<>>)
  /\ [][PrimOpeningRule]_vars

C5_Witness ==
  /\ alg = "PRIM" /\ pc = "done" /\ width = 2 /\ height = 3
  /\ walls = <<>> /\ start = Pos(1, 1)
  /\ PerfectMaze(steps[Len(steps)].cells)
  /\ hasWallBetween(Pos(1, 0), Pos(1, 1), grid)

\* The east walls of row r between columns a and b are all open.
SameRun(g, r, a, b) ==
  \A c \in (IF a < b THEN a ELSE b)..((IF a < b THEN b ELSE a) - 1) :
    ~hasWallBetween(Pos(r, c), Pos(r, c + 1), g)

\* Row 0 is one corridor; in every later row every run (maximal stretch of
\* cells joined by open east walls) has exactly one cell open to the north.
SidewinderShape(g) ==
  /\ SameRun(g, 0, 0, GridWidth(g) - 1)
  /\ \A p \in DOMAIN g :
       p.row >= 1 =>
         Cardinality({c \in 0..(GridWidth(g) - 1) :
                        /\ SameRun(g, p.row, p.col, c)
                        /\ ~hasWallBetween(Pos(p.row, c), Pos(p.row - 1, c), g)}) = 1

\* C6: for every width, height >= 2 and all coin flips and run-member choices
\* generateMazeSideWinder yields a perfect maze: row 0 is one open corridor, in
\* every later row each run - the one that ends at the last cell of the row
\* included - has exactly one opening to the north, and the grid and every
\* snapshot of the returned log are connected with exactly width*height - 1
\* passages.
C6_SidewinderPerfectMaze ==
  alg = "SIDEWINDER" =>
    /\ LogPerfect
    /\ TopologyDone => SidewinderShape(grid)

C6_Witness ==
  /\ alg = "SIDEWINDER" /\ pc = "done" /\ width = 3 /\ height = 3
  /\ PerfectMaze(steps[Len(steps)].cells)
  /\ hasWallBetween(Pos(1, 0), Pos(1, 1), grid)
  /\ ~hasWallBetween(Pos(2, 0), Pos(2, 1), grid)
  /\ ~hasWallBetween(Pos(2, 1), Pos(2, 2), grid)
  /\ ~hasWallBetween(Pos(2, 1), Pos(1, 1), grid)

\* C7: for every width, height >= 2 and all coin flips generateMazeBinaryTree
\* yields a perfect maze: after its single full scan the passage graph of the
\* grid and of every snapshot of the returned log is connected and has exactly
\* width*height - 1 edges.
C7_BinaryTreePerfectMaze ==
  alg = "BINARY_TREE" =>
    /\ LogPerfect
    /\ TopologyDone => PerfectMaze(grid) /\ Len(visitPath) = width * height

C7_Witness ==
  /\ alg = "BINARY_TREE" /\ pc = "done" /\ width = 3 /\ height = 3
  /\ PerfectMaze(steps[Len(steps)].cells)
  /\ ~hasWallBetween(Pos(0, 0), Pos(1, 0), grid)
  /\ ~hasWallBetween(Pos(1, 1), Pos(1, 2), grid)

\* A step of the Aldous-Broder walk removes the wall between the cell it leaves
\* and the cell it reaches exactly when the reached cell was not yet visited.
AldousBroderRemovalRule ==
  (alg = "ALDOUS_BRODER" /\ pc = "topology" /\ pc' = "topology") =>
    /\ Adjacent(current, current')
    /\ IF isVisited(current', visited)
         THEN grid' = grid
         ELSE /\ hasWallBetween(current, current', grid)
              /\ ~hasWallBetween(current, current', grid')
              /\ Cardinality(Passages(grid')) = Cardinality(Passages(grid)) + 1

WallSymmetry(g) ==
  \A p \in DOMAIN g :
    /\ Pos(p.row, p.col + 1) \in DOMAIN g =>
         g[p].walls.east = g[Pos(p.row, p.col + 1)].walls.west
    /\ Pos(p.row + 1, p.col) \in DOMAIN g =>
         g[p].walls.south = g[Pos(p.row + 1, p.col)].walls.north

\* C9: wall symmetry holds in every grid state reached during any of the eight
\* generators (each action makes at most one removeWallBetween or setWallBetween
\* call) and in every snapshot of the log: for every orthogonally adjacent pair
\* a, b the wall flag of a facing b equals the wall flag of b facing a.
C9_WallSymmetry ==
  /\ WallSymmetry(grid)
  /\ \A i \in DOMAIN steps : WallSymmetry(steps[i].cells)

\* A log is returned whose topology has both a wall a setWallBetween or createGrid
\* left between two cells and a passage next to it.
C9_Witness ==
  /\ pc = "done" /\ width = 3 /\ height = 3 /\ Len(steps) = 10
  /\ steps[10].cells[Pos(1, 1)].walls.east /\ steps[10].cells[Pos(1, 2)].walls.west
  /\ ~steps[10].cells[Pos(1, 1)].walls.north /\ ~steps[10].cells[Pos(0, 1)].walls.south

\* Every cell on the rim of the grid has its outward wall.
BoundaryWalls(g) ==
  \A p \in DOMAIN g :
    /\ p.row = 0 => g[p].walls.north
    /\ p.row = GridHeight(g) - 1 => g[p].walls.south
    /\ p.col = 0 => g[p].walls.west
    /\ p.col = GridWidth(g) - 1 => g[p].walls.east

\* C10: boundary walls are never removed: in every grid state reached during
\* any of the eight generators and in every snapshot of the log each cell of row
\* 0 has its north wall, each cell of the last row its south wall, each cell of
\* column 0 its west wall and each cell of the last column its east wall.
C10_BoundaryWalls ==
  /\ BoundaryWalls(grid)
  /\ \A i \in DOMAIN steps : BoundaryWalls(steps[i].cells)

\* Sidewinder has returned a log after opening the north wall of a cell of
\* row 1 in the last column and the east wall of a cell of the last row.
C10_Witness ==
  /\ alg = "SIDEWINDER" /\ pc = "done" /\ width = 3 /\ height = 3
  /\ ~grid[Pos(1, 2)].walls.north /\ ~grid[Pos(2, 1)].walls.east
  /\ BoundaryWalls(steps[Len(steps)].cells)

-----------------------------------------------------------------------------
(* The generation log. *)

\* Every cell is visited and a wall flag is colored exactly where the wall stands.
FullyColored(g) ==
  \A p \in DOMAIN g :
    /\ g[p].visited
    /\ \A d \in Directions : g[p].coloredWalls[d] = g[p].walls[d]

\* C11: for every generator, the last step of the returned generation log
\* carries the fully colored topology: every cell of its cells has visited = true
\* and, for every cell and direction, coloredWalls[d] is true exactly when
\* walls[d] is true.
C11_LastStepFullyColored ==
  pc = "done" => FullyColored(steps[Len(steps)].cells)

\* Recursive Division has returned a log for a 3x3 grid whose last step shows
\* both a standing inner wall, colored, and an open passage, uncolored.
C11_Witness ==
  /\ alg = "RECURSIVE_DIVISION" /\ pc = "done" /\ width = 3 /\ height = 3
  /\ FullyColored(steps[Len(steps)].cells)
  /\ \E p \in DOMAIN grid :
       /\ p.col < 2 /\ steps[Len(steps)].cells[p].coloredWalls.east
       /\ p.row < 2 /\ ~steps[Len(steps)].cells[p].coloredWalls.south

\* No coloredWalls flag of any cell is set.
NoColoredWall(g) ==
  \A p \in DOMAIN g : \A d \in Directions : ~g[p].coloredWalls[d]

\* The two grids have the same walls.
SameWalls(g1, g2) == \A p \in DOMAIN g1 : g1[p].walls = g2[p].walls

\* Step 0 of the log: nothing visited, nothing colored, the finished topology.
StepZeroEmpty ==
  /\ steps[1].visitedCells = <<>>
  /\ NoColoredWall(steps[1].cells)
  /\ SameWalls(steps[1].cells, grid)
  /\ PerfectMaze(steps[1].cells)

\* C12: for every one of the eight generators, step 0 of the returned log has
\* an empty visitedCells list and no colored wall (every coloredWalls flag of
\* every cell in step 0 is false), over the finished wall topology.
C12_StepZeroEmpty == pc = "done" => StepZeroEmpty

\* visitedCells never gets shorter from one step of the log to the next.
VisitedCellsMonotone ==
  \A i \in 1..(Len(steps) - 1) :
    Len(steps[i].visitedCells) <= Len(steps[i + 1].visitedCells)

\* The last step's visitedCells holds every cell of the grid, once each.
LastStepVisitsAll ==
  LET last == steps[Len(steps)].visitedCells
  IN  /\ Len(last) = width * height
      /\ Range(last) = Positions(width, height)

\* C13: for every one of the eight generators, along the generation log the
\* length of visitedCells never decreases from one step to the next, and in the
\* last step visitedCells holds every cell of the grid (length = width*height).
C13_VisitedCellsGrow ==
  /\ VisitedCellsMonotone
  /\ pc = "done" => LastStepVisitsAll

\* C14: the coloring phase never alters topology: within one generation log,
\* for every generator, the walls of every cell are identical in all steps
\* (step 0 through the last step) and equal to the walls of the finished grid;
\* only visited and coloredWalls differ between steps.
C14_ColoringKeepsWalls ==
  \A i \in DOMAIN steps :
    /\ SameWalls(steps[i].cells, steps[1].cells)
    /\ SameWalls(steps[i].cells, grid)

\* A log is returned whose first and last step differ in the coloredWalls and
\* visited flags of a cell that has an open passage in both.
C14_Witness ==
  /\ pc = "done" /\ Len(steps) >= width * height
  /\ \E p \in DOMAIN grid :
       /\ ~steps[1].cells[p].walls.east /\ ~steps[Len(steps)].cells[p].walls.east
       /\ ~steps[1].cells[p].coloredWalls.north
       /\ steps[Len(steps)].cells[p].coloredWalls.north
       /\ steps[Len(steps)].cells[p].visited

-----------------------------------------------------------------------------
(* The controller. *)

\* Both cells are cells of the grid, orthogonally adjacent, with no wall between.
OpenPassage(a, b, g) ==
  /\ a \in DOMAIN g /\ b \in DOMAIN g
  /\ Adjacent(a, b)
  /\ ~hasWallBetween(a, b, g)

\* A non-empty path starts at start and runs along open passages of the grid.
ValidUserPath(s) ==
  Len(s.userPath) > 0 =>
    /\ s.userPath[1] = s.start
    /\ \A i \in 1..(Len(s.userPath) - 1) :
         OpenPassage(s.userPath[i], s.userPath[i + 1], s.grid)

\* C15: user path validity is an invariant of the controller: after any
\* sequence of commands (generate, timer ticks, skip, solve, addUserPath,
\* clearUserPath, resetCurrent, resetFull, setSize), a non-empty userPath starts
\* at start and every consecutive pair of positions in it is orthogonally
\* adjacent with no wall between them in the current grid.
C15_UserPathValid == ValidUserPath(state)

\* A user path of three cells has been drawn through a generated maze whose
\* configured size has since been changed.
C15_Witness ==
  /\ Ready
  /\ Len(state.userPath) = 3
  /\ state.width # GridWidth(state.grid)
  /\ \E p \in DOMAIN state.grid : \E d \in {"east", "south"} :
       p.row < 1 /\ p.col < 1 /\ state.grid[p].walls[d]

\* The controller states: no log (Idle); generation log shown below its last
\* step (Generating); generation log at its last step and no solving log
\* (GenerationComplete); solving log shown below its last step (Solving);
\* solving log at its last step (SolvingComplete).
Idle(s) == Len(s.generationSteps) = 0

Generating(s) ==
  /\ Len(s.generationSteps) > 0
  /\ s.currentGenerationStep < Len(s.generationSteps) - 1

GenerationComplete(s) ==
  /\ Len(s.generationSteps) > 0
  /\ s.currentGenerationStep = Len(s.generationSteps) - 1
  /\ ~s.isGenerating
  /\ Len(s.solvingSteps) = 0

Solving(s) ==
  /\ Len(s.solvingSteps) > 0
  /\ s.currentSolvingStep < Len(s.solvingSteps) - 1

SolvingComplete(s) ==
  /\ Len(s.solvingSteps) > 0
  /\ s.currentSolvingStep = Len(s.solvingSteps) - 1
  /\ ~s.isSolving

\* Some element of the path is p.
Occurs(path, p) == \E k \in DOMAIN path : path[k] = p

\* The index of the first occurrence of p in the path.
FirstIndex(path, p) ==
  CHOOSE k \in DOMAIN path : path[k] = p /\ \A j \in 1..(k - 1) : path[j] # p

\* What the user path becomes by addUserPath(p) as the spec has it: truncation
\* to an occurrence of p, else extension by an adjacent p across an open
\* passage, else nothing.
UndoOrExtend(s, p) ==
  LET last == s.userPath[Len(s.userPath)]
  IN  IF Occurs(s.userPath, p)
        THEN SubSeq(s.userPath, 1, FirstIndex(s.userPath, p))
      ELSE IF OpenPassage(last, p, s.grid)
        THEN Append(s.userPath, p)
      ELSE s.userPath

\* C16: in GenerationComplete with a non-empty userPath, addUserPath(p) behaves
\* as: if p already occurs in the path at index k, the path becomes its first
\* k+1 elements (whether or not p is adjacent to the current last element); else
\* if p is orthogonally adjacent to the last element with no wall between them,
\* p is appended; otherwise the path is unchanged.  In particular
\* [start, X, start] ends as [start].
C16_AddUserPathUndoOrExtend ==
  (Ready /\ GenerationComplete(state) /\ Len(state.userPath) > 0) =>
    \A p \in PlayPositions :
      LET after == outcome(state, <<[type |-> "ADD_USER_PATH", position |-> p]>>)
      IN  ~after.error /\ after.state.userPath = UndoOrExtend(state, p)

\* C17: solve() is legal only in GenerationComplete: called in Idle (no maze
\* generated yet, or after resetFull) or in Generating(i) with i below the last
\* index, it is silently rejected - the controller state is unchanged and no
\* error is raised.
C17_SolveRejectedBeforeGenerationComplete ==
  (Ready /\ (Idle(state) \/ Generating(state))) =>
    LET after == outcome(state, solveMazeDispatches(state))
    IN  ~after.error /\ after.state = state

\* C18: addUserPath(p) is legal only in GenerationComplete: called in Idle
\* (before any maze exists), in Generating(i) or in Solving(j), it leaves the
\* whole controller state (userPath, timer, solved) unchanged for every
\* position p, including p = start, and raises no error.
C18_AddUserPathRejectedOutsideGenerationComplete ==
  (Ready /\ (Idle(state) \/ Generating(state) \/ Solving(state))) =>
    \A p \in PlayPositions :
      LET after == outcome(state, <<[type |-> "ADD_USER_PATH", position |-> p]>>)
      IN  ~after.error /\ after.state = state

\* The state the GENERATE_MAZE reduction of generate() yields, the generator
\* having returned the log `steps`.
GenerateReduced ==
  mazeReducer(state, [type |-> "GENERATE_MAZE", generationSteps |-> steps]).value

\* What generate() leaves in s, given the log the generator returned: that log
\* is installed, the user path and the solving log are empty, nothing is solved
\* and no end time stands; the first step is shown and generation is under way if
\* generation animation is enabled, else the last step is shown and generation
\* is over.
PreviousRunDiscarded(s, log) ==
  /\ s.generationSteps = log
  /\ s.userPath = <<>>
  /\ s.solvingSteps = <<>> /\ s.currentSolvingStep = -1 /\ ~s.isSolving
  /\ s.endTime = Null /\ ~s.solved
  /\ IF s.generationAnimationEnabled
       THEN /\ s.currentGenerationStep = 0 /\ s.isGenerating
            /\ s.grid = log[1].cells
            /\ Generating(s)
       ELSE /\ s.currentGenerationStep = Len(log) - 1 /\ ~s.isGenerating
            /\ s.grid = log[Len(log)].cells
            /\ GenerationComplete(s)

PlayingGeneration == Ready /\ animationTimer.type = "SET_GENERATION_STEP"

PlayingSolving == Ready /\ animationTimer.type = "SET_SOLVING_STEP"

\* The generation (solving) log is shown at its last step, generation (solving)
\* is over and playback has stopped.
GenerationPlayedOut ==
  /\ state.currentGenerationStep = Len(state.generationSteps) - 1
  /\ ~state.isGenerating
  /\ ~state.animationPlaying

SolvingPlayedOut ==
  /\ state.currentSolvingStep = Len(state.solvingSteps) - 1
  /\ ~state.isSolving
  /\ ~state.animationPlaying

\* C20: playback liveness: after generate() (resp. solve()) with animation
\* enabled, if timer ticks are fair and no further command is issued, the
\* controller eventually reaches GenerationComplete (resp. SolvingComplete) -
\* the step index equals the last index and isGenerating (resp. isSolving) is
\* false - and playback then stops: animationPlaying becomes false and, no tick
\* being pending once it is false, stays false.
C20_PlaybackLiveness ==
  /\ PlayingGeneration ~> GenerationPlayedOut
  /\ PlayingSolving ~> SolvingPlayedOut
  /\ [](~state.animationPlaying => Quiet)
  /\ [][Tick => (state.animationPlaying /\ (~state.animationPlaying' =>
                   GenerationPlayedOut' \/ SolvingPlayedOut'))]_vars

\* A solving playback has been played out by ticks alone on a maze whose
\* generation had been played out before.
C20_Witness ==
  /\ Ready /\ SolvingComplete(state) /\ SolvingPlayedOut
  /\ state.solvingAnimationEnabled /\ state.generationAnimationEnabled
  /\ Len(state.solvingSteps) >= 3
  /\ state.solved

\* What state s shows once the log on display has been skipped to its end: the
\* step index is the last index of the log, the log is no longer being played
\* and no timeout is left pending.
SkippedGeneration(o) ==
  /\ ~o.error
  /\ o.state.currentGenerationStep = Len(o.state.generationSteps) - 1
  /\ ~o.state.isGenerating
  /\ ~o.state.animationPlaying
  /\ scheduledTimer(o.state) = NoTimer

SkippedSolving(o) ==
  /\ ~o.error
  /\ o.state.currentSolvingStep = Len(o.state.solvingSteps) - 1
  /\ ~o.state.isSolving
  /\ ~o.state.animationPlaying
  /\ scheduledTimer(o.state) = NoTimer

\* C21: skipToEnd in Generating(i) (resp. Solving(j)) jumps directly to the
\* last step of the active log and cancels the pending tick: immediately
\* afterwards the index is the last index, isGenerating (resp. isSolving) is
\* false, playback is stopped and no timeout is pending, so that no tick
\* scheduled before the skip changes the step index afterwards.
C21_SkipToEnd ==
  Ready =>
    /\ Generating(state) =>
         SkippedGeneration(outcome(state, completeGenerationDispatches(state)))
    /\ Solving(state) =>
         SkippedSolving(outcome(state, completeSolvingDispatches(state)))

\* A generation playback is at a step past the first and below the last, with
\* the next tick pending.
C21_Witness ==
  /\ Ready /\ Generating(state)
  /\ state.currentGenerationStep > 0
  /\ state.animationPlaying
  /\ animationTimer.type = "SET_GENERATION_STEP"
  /\ animationTimer.step < Len(state.generationSteps) - 1

\* The state after the timeout pending in state s, if any, has fired.
afterTick(s) ==
  IF scheduledTimer(s).type = Null
    THEN s
    ELSE outcome(s, <<[type |-> scheduledTimer(s).type,
                       step |-> scheduledTimer(s).step]>>).state

\* The states setSize and setGenerationAlgorithm leave when they change the
\* size or the algorithm of s.
afterSizeOrAlgorithmChange(s) ==
  {outcome(s, <<[type |-> "SET_SIZE", width |-> sz[1], height |-> sz[2]]>>).state :
     sz \in {x \in PlaySizes : x # <<s.width, s.height>>}}
  \cup
  {outcome(s, <<[type |-> "SET_GENERATION_ALGORITHM", algorithm |-> a]>>).state :
     a \in PlayAlgorithms \ {s.generationAlgorithm}}

\* C22: a pending playback timer is cancelled on a size or algorithm change: if
\* setSize or setGenerationAlgorithm is called while the controller is playing
\* in Generating(i), no tick advances the generation step index afterwards:
\* the old log is not stepped further.
C22_TimerCancelledOnSizeOrAlgorithmChange ==
  (Ready /\ Generating(state) /\ animationTimer.type = "SET_GENERATION_STEP") =>
    \A t \in afterSizeOrAlgorithmChange(state) :
      /\ t.generationSteps = state.generationSteps
      /\ afterTick(t).currentGenerationStep = state.currentGenerationStep

-----------------------------------------------------------------------------
(* The solver *)

\* The solver of the state has been called on the maze of the state and has
\* returned.
SolverReturned == ~error /\ Len(state.solvingSteps) > 0

DFSReturned == state.solvingAlgorithm = "DFS" /\ SolverReturned

BFSReturned == state.solvingAlgorithm = "BFS" /\ SolverReturned

\* path leads from cell a to cell b through open passages of g.
RouteBetween(path, a, b, g) ==
  /\ Len(path) > 0
  /\ path[1] = a
  /\ path[Len(path)] = b
  /\ \A k \in 1..(Len(path) - 1) : OpenPassage(path[k], path[k + 1], g)

EndReachable(s) == s.end \in ReachableFrom({s.start}, s.grid)

\* C23: for any grid, start and end, in every step of solveMazeDFS's log whose
\* path is non-empty the path starts at start, ends at that step's currentCell,
\* and every consecutive pair in it is orthogonally adjacent with no wall
\* between them; and if end is reachable from start the last step has
\* currentCell = end and such a path from start to end.
C23_SolverPathsAreRoutes ==
  DFSReturned =>
    LET log == state.solvingSteps
    IN  /\ \A k \in DOMAIN log :
             Len(log[k].path) > 0 =>
               RouteBetween(log[k].path, state.start, log[k].currentCell, state.grid)
        /\ EndReachable(state) =>
             /\ log[Len(log)].currentCell = state.end
             /\ RouteBetween(log[Len(log)].path, state.start, state.end, state.grid)

\* The solver has returned from a 3 x 2 grid with a cycle, having first walked
\* into a dead end: some step's path leads to a cell that is not on the final
\* path of five cells.
C23_Witness ==
  /\ DFSReturned
  /\ state.width = 3 /\ state.height = 2
  /\ Cardinality(Passages(state.grid)) >= 6
  /\ EndReachable(state)
  /\ Len(state.solvingSteps[Len(state.solvingSteps)].path) = 5
  /\ \E k \in DOMAIN state.solvingSteps :
       /\ Len(state.solvingSteps[k].path) > 1
       /\ state.solvingSteps[k].currentCell \notin
            Range(state.solvingSteps[Len(state.solvingSteps)].path)

\* C24: unreachable target: for any grid in which end is not reachable from
\* start through open passages (including when start has reachable
\* neighbours), solveMazeDFS raises no error and the last step of the
\* returned log has an empty path.
C24_UnreachableEndsWithEmptyPath ==
  (/\ state.solvingAlgorithm = "DFS"
   /\ ~EndReachable(state)
   /\ (error \/ Len(state.solvingSteps) > 0)) =>
    /\ ~error
    /\ Len(state.solvingSteps[Len(state.solvingSteps)].path) = 0

\* The number of passages on a shortest route from a cell of S to the cell
\* `target`, which some cell of S reaches, d being the number already walked.
RECURSIVE DistanceFrom(_, _, _, _)
DistanceFrom(S, target, g, d) ==
  IF target \in S THEN d ELSE DistanceFrom(S \cup Step(S, g), target, g, d + 1)

\* The index of the first step of the log whose current cell is the cell c.
FirstStepAt(log, c) ==
  CHOOSE k \in DOMAIN log :
    /\ log[k].currentCell = c
    /\ \A j \in 1..(k - 1) : log[j].currentCell # c

DFSFinalPath(s) ==
  LET log == solveMazeDFS([cells |-> s.grid, width |-> s.width, height |-> s.height,
                           start |-> s.start, end |-> s.end]).value
  IN  log[Len(log)].path

\* C25: for any maze, start and end with end reachable, the path of the BFS
\* solver's step in which end is first discovered has the minimum possible
\* number of edges among all open-passage routes from start to end; hence its
\* length is at most the length of the DFS solver's final path on the same
\* maze.
C25_BFSPathShortest ==
  (BFSReturned /\ EndReachable(state) /\ state.start # state.end) =>
    LET log == state.solvingSteps
        found == log[FirstStepAt(log, state.end)].path
    IN  /\ RouteBetween(found, state.start, state.end, state.grid)
        /\ Len(found) - 1 = DistanceFrom({state.start}, state.end, state.grid, 0)
        /\ Len(found) <= Len(DFSFinalPath(state))

\* The BFS solver has returned from a grid with a cycle on which the DFS
\* solver's final path is longer than the shortest route.
C25_Witness ==
  /\ BFSReturned /\ EndReachable(state)
  /\ state.width = 3 /\ state.height = 2
  /\ Len(DFSFinalPath(state)) >
       DistanceFrom({state.start}, state.end, state.grid, 0) + 1

\* The grid g with the visited flag set on the cells of V and cleared on the
\* others, and the walls colored on the cells of C and uncolored on the others.
withFlags(g, V, C) ==
  [p \in DOMAIN g |->
     [visited |-> p \in V,
      walls |-> g[p].walls,
      coloredWalls |-> [d \in Directions |-> p \in C /\ g[p].walls[d]]]]

\* Grids with the walls of g and other visited and coloredWalls flags.
FlagVariants(g) ==
  {withFlags(g, V, C) : V \in SUBSET DOMAIN g, C \in {DOMAIN g}} \cup
  {withFlags(g, V, (DOMAIN g) \ V) : V \in SUBSET DOMAIN g}

\* C26: the solver never inspects presentation state: for two mazes with
\* identical walls, dimensions, start and end but arbitrary different visited
\* and coloredWalls flags, solveMazeDFS returns identical step logs, and it
\* leaves every cell of the input grid unchanged.
C26_SolverIgnoresPresentationState ==
  /\ [](DFSReturned =>
         \A g \in FlagVariants(state.grid) :
           solveMazeDFS([cells |-> g, width |-> state.width,
                         height |-> state.height, start |-> state.start,
                         end |-> state.end]) = Returns(state.solvingSteps))
  /\ [][SolverCall => state'.grid = state.grid]_vars

\* The DFS solver has returned a log of at least six steps from a 3 x 2 grid
\* none of whose flags is set.
C26_Witness ==
  /\ DFSReturned
  /\ state.width = 3 /\ state.height = 2
  /\ Len(state.solvingSteps) >= 6
  /\ Cardinality(FlagVariants(state.grid)) > 100
  /\ \A p \in DOMAIN state.grid : ~state.grid[p].visited

-----------------------------------------------------------------------------
(* The wall model under misuse *)

\* C27: removeWallBetween(a, b) is defensive against misuse: for every pair of
\* in-bounds positions a, b that are not orthogonally adjacent (including pairs
\* whose rows differ by 1 but whose columns differ, and a = b), the call
\* changes no wall flag of any cell, so wall symmetry still holds afterwards.
C27_RemoveWallBetweenDefensive ==
  \A a, b \in DOMAIN grid :
    ~Adjacent(a, b) =>
      /\ SameWalls(removeWallBetween(a, b, grid), grid)
      /\ WallSymmetry(grid) => WallSymmetry(removeWallBetween(a, b, grid))

-----------------------------------------------------------------------------
(* The resets *)

\* C28: resetFull() fully regenerates: after it the controller holds a newly
\* generated maze (non-empty grid and generation log, state Generating(0) or
\* GenerationComplete) with empty userPath and solving log.  Stated of the
\* states that hold a maze when resetMaze is called.
C28_ResetMazeRegenerates ==
  (Ready /\ ~Idle(state)) =>
    LET t == outcome(state, <<[type |-> "RESET_MAZE"]>>).state
    IN  /\ DOMAIN t.grid # {}
        /\ Len(t.generationSteps) > 0
        /\ \/ Generating(t) /\ t.currentGenerationStep = 0
           \/ GenerationComplete(t)
        /\ t.userPath = <<>>
        /\ t.solvingSteps = <<>>

\* What resetCurrent() clears, in s.
SolvingStateCleared(s) ==
  /\ s.userPath = <<>>
  /\ s.solvingSteps = <<>>
  /\ s.currentSolvingStep = -1
  /\ ~s.isSolving
  /\ s.endTime = Null
  /\ ~s.solved

\* What resetCurrent() keeps, from s to t.
MazeAndSettingsKept(s, t) ==
  /\ t.grid = s.grid
  /\ t.generationSteps = s.generationSteps
  /\ t.currentGenerationStep = s.currentGenerationStep
  /\ t.isGenerating = s.isGenerating
  /\ t.width = s.width /\ t.height = s.height
  /\ t.start = s.start /\ t.end = s.end
  /\ t.generationAlgorithm = s.generationAlgorithm
  /\ t.solvingAlgorithm = s.solvingAlgorithm
  /\ t.generationAnimationEnabled = s.generationAnimationEnabled
  /\ t.solvingAnimationEnabled = s.solvingAnimationEnabled
  /\ t.animationSpeed = s.animationSpeed

-----------------------------------------------------------------------------
(* Termination *)

\* The Aldous-Broder walk has visited every cell.
WalkComplete ==
  alg = "ALDOUS_BRODER" /\ pc # "begin" /\ Len(visited) = width * height

\* C30: every generator terminates; in particular generateMazeAldousBroder's
\* random walk reaches the state where all width*height cells are visited
\* under fair (every neighbour chosen infinitely often) random choice, for
\* every grid with width, height >= 1, while the other seven generators
\* terminate for every choice sequence.
C30_GeneratorsTerminate ==
  /\ <>(pc = "done")
  /\ (alg = "ALDOUS_BRODER") => <>WalkComplete

\* The Aldous-Broder generator has returned the log of a grid of six cells.
C30_Witness ==
  /\ alg = "ALDOUS_BRODER" /\ pc = "done"
  /\ width * height = 6
  /\ Len(steps) = 7
  /\ Connected(grid)

-----------------------------------------------------------------------------
(* The user path and the elapsed-time measurement *)

\* The last position of a non-empty path.
LastPosition(path) == path[Len(path)]

\* C31: in GenerationComplete with no solving log, solved is true exactly when
\* the last position of userPath is end: an addUserPath call that appends end
\* sets solved = true, and after any later addUserPath call (append or
\* truncation) that leaves the path ending elsewhere solved is false.
C31_SolvedIffPathEndsAtEnd ==
  (Ready /\ GenerationComplete(state)) =>
    \A p \in PlayPositions :
      \E after \in {outcome(state, <<[type |-> "ADD_USER_PATH", position |-> p]>>)} :
        (~after.error /\ after.state.userPath # state.userPath) =>
          (after.state.solved <=>
             LastPosition(after.state.userPath) = after.state.end)

-----------------------------------------------------------------------------
(* Timer ticks *)

\* What the callback of the pending timeout leaves in state s.
tickOutcome(s, timer) == outcome(s, <<[type |-> timer.type, step |-> timer.step]>>)

\* The logs, the size and the positions of t are those of s.
SameLogs(s, t) ==
  /\ t.generationSteps = s.generationSteps
  /\ t.solvingSteps = s.solvingSteps

\* One step of generation playback from s to t: the index is one more, the grid
\* is the cells of that step and generation is over exactly at the last index.
GenerationAdvancedByOne(s, t) ==
  LET i == s.currentGenerationStep
      last == Len(s.generationSteps) - 1
  IN  /\ t.currentGenerationStep = i + 1
      /\ i + 1 <= last
      /\ t.grid = s.generationSteps[i + 2].cells
      /\ IF i + 1 = last THEN GenerationComplete(t) ELSE Generating(t) /\ t.isGenerating
      /\ t.currentSolvingStep = s.currentSolvingStep
      /\ SameLogs(s, t)

\* One step of solving playback from s to t.
SolvingAdvancedByOne(s, t) ==
  LET j == s.currentSolvingStep
      last == Len(s.solvingSteps) - 1
  IN  /\ t.currentSolvingStep = j + 1
      /\ j + 1 <= last
      /\ IF j + 1 = last THEN SolvingComplete(t) ELSE Solving(t) /\ t.isSolving
      /\ t.currentGenerationStep = s.currentGenerationStep
      /\ t.grid = s.grid
      /\ SameLogs(s, t)

\* C32: each timer tick advances the active log by exactly one step: from
\* Generating(i) while playing, a tick leads to index i+1 (GenerationComplete
\* when i+1 is the last index) with grid = cells of step i+1, and from
\* Solving(j) to index j+1; a tick never skips, repeats or decreases an index
\* and never modifies the step logs.
C32_TickAdvancesByOne ==
  (Ready /\ animationTimer.type # Null) =>
    \E after \in {tickOutcome(state, animationTimer)} :
      /\ ~after.error
      /\ state.animationPlaying
      /\ IF animationTimer.type = "SET_GENERATION_STEP"
           THEN Generating(state) /\ GenerationAdvancedByOne(state, after.state)
           ELSE Solving(state) /\ SolvingAdvancedByOne(state, after.state)

\* Ticks have brought a solving playback to a step past the first and below
\* the last, and the next tick is pending.
C32_Witness ==
  /\ Ready /\ Solving(state)
  /\ state.currentSolvingStep >= 1
  /\ animationTimer.type = "SET_SOLVING_STEP"
  /\ animationTimer.step = state.currentSolvingStep + 1
  /\ state.currentGenerationStep = Len(state.generationSteps) - 1

-----------------------------------------------------------------------------
(* The working state of the generators. *)

\* No cell of the grid is marked visited.
NoVisitedCell(g) == \A p \in DOMAIN g : ~g[p].visited

\* C33: working state is reset before the coloring phase: for every one of the
\* eight generators, every cell in step 0 of the log has visited = false and
\* all four coloredWalls flags false.
C33_WorkingStateReset ==
  Len(steps) > 0 =>
    /\ NoVisitedCell(steps[1].cells)
    /\ NoColoredWall(steps[1].cells)

-----------------------------------------------------------------------------
(* The elapsed-time measurement. *)

\* C34: the elapsed-time measurement starts on the user path's first extension
\* from start: after generate() reaches GenerationComplete, startTime stays
\* unset (null) until the first accepted addUserPath(start), and is set by that
\* call.
C34_TimerStartsOnFirstExtension ==
  (Ready /\ GenerationComplete(state) /\ Len(state.userPath) = 0) =>
    /\ state.startTime = Null
    /\ \E after \in {outcome(state, <<[type |-> "ADD_USER_PATH",
                                       position |-> state.start]>>)} :
         /\ ~after.error
         /\ after.state.userPath = <<state.start>>
         /\ after.state.startTime # Null

-----------------------------------------------------------------------------
(* The Binary Tree scan. *)

\* The cell at p has opened exactly one of its north and west walls where it
\* has a neighbour on either side, the one possible wall on the top row and in
\* the left column, and none in the top-left corner.
OpensNorthOrWest(g, p) ==
  IF p.row = 0 /\ p.col = 0
    THEN g[p].walls.north /\ g[p].walls.west
  ELSE IF p.row = 0
    THEN g[p].walls.north /\ ~g[p].walls.west
  ELSE IF p.col = 0
    THEN ~g[p].walls.north /\ g[p].walls.west
  ELSE g[p].walls.north # g[p].walls.west

\* C35: the Binary Tree generator opens, for each cell, either its north or its
\* west wall (only the one available direction on the top row / left column,
\* none for the corner cell), in a single full scan.
C35_BinaryTreeOpensNorthOrWest ==
  (alg = "BINARY_TREE" /\ TopologyDone) =>
    /\ Len(visitPath) = width * height
    /\ \A p \in DOMAIN grid : OpensNorthOrWest(grid, p)

-----------------------------------------------------------------------------
(* What the controller displays. *)

\* The grid on display is the step of the generation log the index names, and
\* generation is under way exactly below the last index; without a log nothing
\* is displayed.
DisplayConsistent(s) ==
  IF Len(s.generationSteps) > 0
    THEN /\ 0 <= s.currentGenerationStep
         /\ s.currentGenerationStep < Len(s.generationSteps)
         /\ s.grid = s.generationSteps[s.currentGenerationStep + 1].cells
         /\ s.isGenerating <=> (s.currentGenerationStep < Len(s.generationSteps) - 1)
    ELSE /\ s.grid = <<>>
         /\ s.currentGenerationStep = -1
         /\ ~s.isGenerating

\* C36: controller display invariant: in every reachable state with a non-empty
\* generation log, 0 <= currentGenerationStep < generationSteps.length, grid is
\* the cells of generationSteps[currentGenerationStep], and isGenerating is true
\* exactly when currentGenerationStep is below the last index; with an empty
\* log, grid is empty, currentGenerationStep = -1 and isGenerating = false.
C36_DisplayInvariant == Ready => DisplayConsistent(state)

\* Ticks have brought a generation playback to a step past the first and below
\* the last, the size having been changed since the log was generated.
C36_Witness ==
  /\ Ready
  /\ Len(state.generationSteps) > 3
  /\ state.currentGenerationStep = 2
  /\ state.isGenerating
  /\ state.grid = state.generationSteps[3].cells
  /\ state.grid # state.generationSteps[2].cells
  /\ state.width # GridWidth(state.grid)

\* C37: generation playback and solving playback are never active together: in
\* every state reachable through the controller's commands and timer ticks
\* (generate, solve, skip, togglePlaying, addUserPath, resets, setSize,
\* settings), isGenerating and isSolving are not both true, and a non-empty
\* solving log implies currentGenerationStep is the last generation index.
C37_PlaybacksExclusive ==
  Ready =>
    /\ ~(state.isGenerating /\ state.isSolving)
    /\ Len(state.solvingSteps) > 0 =>
         state.currentGenerationStep = Len(state.generationSteps) - 1

\* A solving playback is under way, its next tick pending, on a maze whose
\* generation was played to its end.
C37_Witness ==
  /\ Ready
  /\ state.isSolving /\ ~state.isGenerating
  /\ Len(state.solvingSteps) > 1
  /\ Len(state.generationSteps) > 1
  /\ state.generationAnimationEnabled
  /\ animationTimer.type = "SET_SOLVING_STEP"

-----------------------------------------------------------------------------
(* Positions and the grid. *)

\* The grid of s has height rows of width columns, and start and end are cells
\* of it.
PositionsBounded(s) ==
  /\ DOMAIN s.grid = Positions(s.width, s.height)
  /\ s.start \in DOMAIN s.grid
  /\ s.end \in DOMAIN s.grid

\* C38: positions stay bounded by the grid: in every reachable controller state
\* with a non-empty grid (after any interleaving of setSize, generate, solve,
\* ticks and resets), the grid has exactly `height` rows and `width` columns and
\* both start and end are positions inside the grid.
C38_PositionsBounded ==
  (Ready /\ state.grid # <<>>) => PositionsBounded(state)

====
